---- MODULE Spec2Model ----
(***************************************************************************)
(* Consensus aggregation engine of textingtheorybot: the vote store, the   *)
(* eligibility checker, the Book-chain validator, the classification and   *)
(* rating consensus, the voting window with its finalization, and the      *)
(* consensus cache (src/src/main.tsx server half, src/src/shared/api.ts).  *)
(*                                                                         *)
(* One vote-mode post is modelled.  Redis hashes are functions whose       *)
(* DOMAIN is the set of fields present; a key holding a string is a record *)
(* with a "set" flag.  Numbers that are fractions in the source are exact  *)
(* rationals [num, den] here (den > 0).  Time is in milliseconds.          *)
(***************************************************************************)
EXTENDS Integers, Sequences, FiniteSets, TLC

VARIABLES
  now,                      \* Date.now()
  postData,                 \* tt:post:<pid>
  votes,                    \* tt:votes:<pid>:<bid>       hash userId -> classification
  userVotes,                \* tt:uservotes:<pid>:<uid>   hash badgeId -> classification
  userElo,                  \* tt:userelo:<pid>:<uid>     string key per user
  eloVoters,                \* tt:elovoters:<pid>         hash userId -> elo
  eloVotes,                 \* tt:elo:<pid>               JSON array
  eloFinalized,             \* tt:elo:finalized:<pid>
  eloNoCountFlairApplied,   \* tt:elo:finalized-nocount:v1:<pid>
  cache,                    \* tt:consensus:v1 / tt:consensus-meta:v1, open and closed
  postFlair,                \* the post's flair on the platform
  userFlair,                \* the creator's user flair on the platform
  pmSent,                   \* private messages sent to the creator
  last,                     \* the request handled last and its response
  lastCounted,              \* history: most recent counted classification per badge and voter
  lastCountedElo,           \* history: most recent counted rating per voter
  iqmIn,                    \* argument of interquartileMean under study
  iqmOut,                   \* its result
  mapped,                   \* a call of iqmToClassification under study
  cacheRead,                \* a call of readConsensusCache under study
  eloCalls,                 \* onVoteElo requests in flight
  badgeCalls,               \* onVoteBadge and onInit requests in flight
  tally,                    \* a call of computeBadgeConsensus under study
  voters,                   \* voters:<postId>           hash userId -> "1"
  elo_votes,                \* post_data:<postId>.elo_votes, a JSON array
  triggers,                 \* CommentCreate triggers in flight
  render,                   \* comment_analysis jobs at the scheduler, per render
  ballot,                   \* the kind of vote the electorate casts in this behaviour
  moderators,               \* the community's moderators, as reddit.getModerators answers
  modCache,                 \* tt:moderator:<subreddit>:<username>
  finalizers,               \* requests inside finalizeEloIfTimedOut, step by step
  closedPosts,              \* the creator's posts whose window has closed
  flairHigh                 \* history: highest Elo written to the creator's user flair

vars == <<now, postData, votes, userVotes, userElo, eloVoters, eloVotes,
          eloFinalized, eloNoCountFlairApplied, cache, postFlair, userFlair,
          pmSent, last, lastCounted, lastCountedElo, iqmIn, iqmOut, ballot,
          moderators, modCache, finalizers, closedPosts, flairHigh, mapped, cacheRead,
          eloCalls, badgeCalls, tally, voters, elo_votes, triggers, render>>

\* the comment and scheduler paths, and the tally under study
appVars == <<tally, voters, elo_votes, triggers, render>>

\* calls under study: of a pure function, or of a handler run one await at a
\* time
studyVars == <<mapped, cacheRead, eloCalls, badgeCalls, appVars>>

\* the moderator list and its cache
modVars == <<moderators, modCache>>

\* finalization taken step by step
raceVars == <<finalizers, closedPosts, flairHigh>>

storeVars == <<votes, userVotes, userElo, eloVoters, eloVotes,
               eloFinalized, eloNoCountFlairApplied, cache>>

-----------------------------------------------------------------------------
(* Tuning constants                                                        *)

MIN_VOTES_FOR_BADGE_CONSENSUS == 10
MIN_VOTES_FOR_POST_FLAIR == 1
MIN_ELO == 100
MAX_ELO == 3000
MIN_VOTER_ACCOUNT_AGE_DAYS == 7
MAX_RENDER_POLL_ATTEMPTS == 3
MIN_VOTE_VALUE == 100
MAX_VOTE_VALUE == 3000
MIN_KARMA_TO_VOTE == 10
MIN_AGE_TO_VOTE_DAYS == 7                  \* MIN_AGE_TO_VOTE_MS, in days
MIN_VOTER_TOTAL_KARMA == 10
CONSENSUS_CACHE_TTL_MS == 10000
MODERATOR_CACHE_TTL_MS == 300000

\* Imported from shared/api.ts by main.tsx but not defined in the sources at
\* hand; stand-ins scaled to the model's clock and electorate.
MAX_POST_AGE_TO_VOTE_MS == 10000
MIN_VOTES_TO_SHOW_ELO_IN_POST_FLAIR == 2

-----------------------------------------------------------------------------
(* Bounds of the model                                                     *)

TickMs == 5000            \* the clock advances in steps of TickMs
MaxNowMs == 25000         \* and stops at MaxNowMs
MaxIqmLen == 9              \* longest argument of interquartileMean explored
MaxExpiries == 1            \* lifetimes of a moderator cache entry the clock passes

Classification ==
  [BRILLIANT |-> "Brilliant", GREAT |-> "Great", BOOK |-> "Book",
   BEST |-> "Best", EXCELLENT |-> "Excellent", GOOD |-> "Good",
   INACCURACY |-> "Inaccuracy", MISTAKE |-> "Mistake", MISS |-> "Miss",
   BLUNDER |-> "Blunder", INTERESTING |-> "Interesting"]

Classifications == {Classification[k] : k \in DOMAIN Classification}

PICKER_CLASSIFICATIONS == Classifications \ {Classification.INTERESTING}

NullClassification == "null"

\* CLASSIFICATION_WEIGHT in units of 1/WeightScale (the source's weights are
\* multiples of 0.5).
WeightScale == 2

CLASSIFICATION_WEIGHT ==
  [c \in Classifications |->
     CASE c = "Brilliant"  -> 6
       [] c = "Great"      -> 4
       [] c = "Best"       -> 2
       [] c = "Excellent"  -> 1
       [] c = "Book"       -> 0
       [] c = "Good"       -> 0
       [] c = "Inaccuracy" -> -1
       [] c = "Mistake"    -> -2
       [] c = "Miss"       -> -2
       [] c = "Blunder"    -> -4
       [] c = "Interesting" -> 0]

Moderator == "mod"

Creator == "creator"
Voters == {"u1", "u2"}                     \* users whose requests are modelled
CrowdSize == MIN_VOTES_FOR_BADGE_CONSENSUS - 1
CrowdNames == <<"c01", "c02", "c03", "c04", "c05", "c06", "c07", "c08", "c09", "c10", "c11", "c12">>
Crowd == {CrowdNames[i] : i \in 1..CrowdSize}   \* voters whose votes are already stored
Users == {Creator} \cup Voters

\* requests in flight at the same time
Requests == {"r1", "r2"}

BadgeIds == <<"b1", "b2", "b3">>
MissingBadge == "b0"
AllBadges == {BadgeIds[i] : i \in 1..Len(BadgeIds)} \cup {MissingBadge}
VoteInputs == {"Book", "Best", "Blunder"}  \* classifications submitted
EloInputs == {-50, 1500, 999999}            \* ratings submitted

\* The user records reddit.getUserById / getBannedUsers can answer with.
\* lookup "throws": reddit.getUserById itself fails.
UserRecords ==
  { [lookup |-> "ok", found |-> TRUE,  ageDays |-> 7, karma |-> 10, banned |-> "no"],
    [lookup |-> "ok", found |-> TRUE,  ageDays |-> 7, karma |-> 10, banned |-> "throws"],
    [lookup |-> "ok", found |-> TRUE,  ageDays |-> 6, karma |-> 10, banned |-> "no"],
    [lookup |-> "ok", found |-> TRUE,  ageDays |-> 7, karma |-> 9,  banned |-> "no"],
    [lookup |-> "ok", found |-> TRUE,  ageDays |-> 7, karma |-> 10, banned |-> "yes"],
    [lookup |-> "ok", found |-> FALSE, ageDays |-> 7, karma |-> 10, banned |-> "no"],
    [lookup |-> "throws", found |-> FALSE, ageDays |-> 7, karma |-> 10, banned |-> "no"] }

\* a user in good standing
GoodStanding(r) ==
  r.lookup = "ok" /\ r.found /\ r.ageDays = 7 /\ r.karma = 10 /\ r.banned = "no"

-----------------------------------------------------------------------------
(* Redis primitives                                                        *)

EmptyHash == <<>>

HSet(h, f, v) == [x \in (DOMAIN h) \cup {f} |-> IF x = f THEN v ELSE h[x]]

HDel(h, fields) == [x \in (DOMAIN h) \ fields |-> h[x]]

RECURSIVE SeqOfSet(_)
SeqOfSet(S) ==
  IF S = {} THEN <<>>
  ELSE LET x == CHOOSE y \in S : TRUE IN <<x>> \o SeqOfSet(S \ {x})

\* Object.values(hash)
HashValues(h) == LET ks == SeqOfSet(DOMAIN h) IN [i \in 1..Len(ks) |-> h[ks[i]]]

RECURSIVE SumSeq(_)
SumSeq(s) == IF s = <<>> THEN 0 ELSE Head(s) + SumSeq(Tail(s))

-----------------------------------------------------------------------------
(* interquartileMean, shared/api.ts                                        *)

RECURSIVE InsertAsc(_, _)
InsertAsc(s, v) ==
  IF s = <<>> THEN <<v>>
  ELSE IF v < Head(s) THEN <<v>> \o s
  ELSE <<Head(s)>> \o InsertAsc(Tail(s), v)

RECURSIVE SortAsc(_)
\* [...values].sort((a, b) => a - b)
SortAsc(s) == IF s = <<>> THEN <<>> ELSE InsertAsc(SortAsc(Tail(s)), Head(s))

Rat(n, d) == [num |-> n, den |-> d]

IqmKNoTrim(n) == 0

\* k = Math.floor(n * 0.25)
IqmK(n) == n \div 4

\* 4 * g, where g = n * 0.25 - k
IqmG4(n) == n % 4

CoreSliceOff(sorted) ==
  LET n == Len(sorted) IN SubSeq(sorted, IqmK(n) + 1, n - IqmK(n) - 1)

\* sorted.slice(k + 1, n - (k + 1)): zero-based k+1 .. n-k-2
CoreSlice(sorted) ==
  LET n == Len(sorted) IN SubSeq(sorted, IqmK(n) + 2, n - IqmK(n) - 1)

BoundaryWeightWhole(n) == 4

\* 4 * boundaryWeight = 4 * (1 - g)
BoundaryWeight4(n) == 4 - IqmG4(n)

\* 4 * (sorted[k] * boundaryWeight + sorted[n - 1 - k] * boundaryWeight)
BoundarySum4(sorted) ==
  LET n == Len(sorted) IN
  BoundaryWeight4(n) * sorted[IqmK(n) + 1] + BoundaryWeight4(n) * sorted[n - IqmK(n)]

\* 4 * weightedSum
WeightedSum4(sorted) == 4 * SumSeq(CoreSlice(sorted)) + BoundarySum4(sorted)

\* 4 * totalWeight = 4 * (n - 2 * trimAmount)
TotalWeight4(n) == 4 * n - 2 * n

interquartileMean(values) ==
  LET n == Len(values) IN
  IF n = 0 THEN Rat(0, 1)
  ELSE IF n = 1 THEN Rat(values[1], 1)
  ELSE LET sorted == SortAsc(values)
       IN Rat(WeightedSum4(sorted), TotalWeight4(n))

\* r >= a/b and r > a/b, r < a/b for a rational r and integers a, b (b > 0)
RGe(r, a, b) == r.num * b >= a * r.den
RGt(r, a, b) == r.num * b > a * r.den
RLt(r, a, b) == r.num * b < a * r.den

\* Math.round: nearest integer, halves towards +infinity
MathRound(r) == (2 * r.num + r.den) \div (2 * r.den)

-----------------------------------------------------------------------------
(* Consensus computation, main.tsx and shared/api.ts                       *)

\* count / totalVotes >= 0.5 in floating point: 0 / 0 is NaN and compares
\* false, a positive count over 0 is Infinity
ShareAtLeastHalf(count, totalVotes) ==
  IF totalVotes = 0 THEN count > 0 ELSE 2 * count >= totalVotes

BookRuleShareOnly(iqm, voteCounts, totalVotes) ==
  ShareAtLeastHalf(voteCounts["Book"], totalVotes)

\* bookShare >= BOOK_MIN_SHARE && iqm inside BOOK_IQM_RANGE, exclusive
BookRule(iqm, voteCounts, totalVotes) ==
  /\ ShareAtLeastHalf(voteCounts["Book"], totalVotes)
  /\ RGt(iqm, -1, 1) /\ RLt(iqm, 1, 1)

MissRuleNever(iqm, voteCounts, totalVotes) == FALSE

\* missShare >= MISS_MIN_SHARE && iqm inside MISS_IQM_RANGE, exclusive
MissRule(iqm, voteCounts, totalVotes) ==
  /\ ShareAtLeastHalf(voteCounts["Miss"], totalVotes)
  /\ RGt(iqm, -2, 1) /\ RLt(iqm, 0, 1)

StandardMappingStrict(iqm) ==
  IF RGt(iqm, 5, 2)  THEN "Brilliant"
  ELSE IF RGt(iqm, 3, 2)  THEN "Great"
  ELSE IF RGt(iqm, 3, 4)  THEN "Best"
  ELSE IF RGt(iqm, 1, 4)  THEN "Excellent"
  ELSE IF RGt(iqm, -1, 4) THEN "Good"
  ELSE IF RGt(iqm, -3, 4) THEN "Inaccuracy"
  ELSE IF RGt(iqm, -3, 2) THEN "Mistake"
  ELSE "Blunder"

\* the chain of thresholds under "Standard mapping"
StandardMapping(iqm) ==
  IF RGe(iqm, 5, 2)  THEN "Brilliant"
  ELSE IF RGe(iqm, 3, 2)  THEN "Great"
  ELSE IF RGe(iqm, 3, 4)  THEN "Best"
  ELSE IF RGe(iqm, 1, 4)  THEN "Excellent"
  ELSE IF RGe(iqm, -1, 4) THEN "Good"
  ELSE IF RGe(iqm, -3, 4) THEN "Inaccuracy"
  ELSE IF RGe(iqm, -3, 2) THEN "Mistake"
  ELSE "Blunder"

iqmToClassification(iqm, voteCounts, totalVotes) ==
  IF BookRule(iqm, voteCounts, totalVotes) THEN "Book"
  ELSE IF MissRule(iqm, voteCounts, totalVotes) THEN "Miss"
  ELSE StandardMapping(iqm)

NoVoteCounts == [c \in Classifications |-> 0]

\* no call of iqmToClassification made yet
NoMapping ==
  [iqm |-> Rat(0, 1), voteCounts |-> NoVoteCounts, totalVotes |-> 0,
   done |-> FALSE, result |-> NullClassification]

QuorumReachedAlways(totalVotes) == TRUE

\* totalVotes >= MIN_VOTES_FOR_BADGE_CONSENSUS
QuorumReached(totalVotes) == totalVotes >= MIN_VOTES_FOR_BADGE_CONSENSUS

\* computeBadgeConsensus: the result, once the counts and the IQM are known
ConsensusResult(totalVotes, voteCounts, iqm) ==
  [classification |->
     IF QuorumReached(totalVotes)
     THEN iqmToClassification(iqm, voteCounts, totalVotes)
     ELSE NullClassification,
   totalVotes |-> totalVotes,
   voteCounts |-> voteCounts,
   iqm |-> iqm]

\* a / WeightScale
Unscaled(r) == Rat(r.num, r.den * WeightScale)

\* computeBadgeConsensus: the loop over Object.entries(allVotes)
ConsensusOfEntries(entries) ==
  IF Len(entries) = 0
  THEN [classification |-> NullClassification, totalVotes |-> 0,
        voteCounts |-> NoVoteCounts, iqm |-> Rat(0, 1)]
  ELSE ConsensusResult(
         Len(entries),
         [c \in Classifications |->
            Cardinality({i \in 1..Len(entries) : entries[i] = c})],
         Unscaled(interquartileMean(
            [i \in 1..Len(entries) |-> CLASSIFICATION_WEIGHT[entries[i]]])))

computeBadgeConsensus(allVotes) == ConsensusOfEntries(HashValues(allVotes))

-----------------------------------------------------------------------------
(* Post data, voting window, eligibility                                   *)

RECURSIVE InsertByOrder(_, _)
InsertByOrder(s, p) ==
  IF s = <<>> THEN <<p>>
  ELSE IF p.order < Head(s).order THEN <<p>> \o s
  ELSE <<Head(s)>> \o InsertByOrder(Tail(s), p)

RECURSIVE SortByOrder(_)
\* .slice().sort((a, b) => (a.order ?? 0) - (b.order ?? 0)), a stable sort
SortByOrder(s) ==
  IF s = <<>> THEN <<>>
  ELSE InsertByOrder(SortByOrder(SubSeq(s, 1, Len(s) - 1)), s[Len(s)])

\* getAllPlacements(postData): the placements in stored order
getAllPlacements(pd) == pd.placements

PlacementIds(pd) == {pd.placements[i].id : i \in 1..Len(pd.placements)}

\* post.createdAt of the platform's post: the time onCreatePost ran
PostCreatedAtMs == TickMs

\* a post stored before createdAtMs was recorded carries none (0)
LegacyPost(pd) == pd.createdAtMs = 0

\* the outcomes of reddit.getPostById, which only a legacy post asks for
BackfillOutcomes(pd) == IF LegacyPost(pd) THEN {"ok", "throws"} ELSE {"unused"}

\* getPostData: the post data returned, and stored back when enriched
getPostData(pd, backfill) ==
  IF ~LegacyPost(pd) THEN pd
  ELSE IF backfill = "ok" THEN [pd EXCEPT !.createdAtMs = PostCreatedAtMs]
  ELSE pd

isVoteWindowOpenAlways(pd, t) == TRUE

isVoteWindowOpenStrict(pd, t) == t - pd.createdAtMs < MAX_POST_AGE_TO_VOTE_MS

isVoteWindowOpen(pd, t) ==
  IF pd.createdAtMs = 0 THEN TRUE
  ELSE t - pd.createdAtMs <= MAX_POST_AGE_TO_VOTE_MS

RejectSelfVoteNever(pd, userId) == FALSE

\* if (postData.creatorId === userId) throw { status: 403, ... }
RejectSelfVote(pd, userId) == pd.creatorId = userId

\* await reddit.getUserById(userId) outside any try: the rejection reaches
\* serverOnRequest
UserLookupThrows(pd, userId, user) == userId # pd.creatorId /\ user.lookup = "throws"

isEligibleVoterAnyone(pd, userId, user) == userId # pd.creatorId

isEligibleVoterBanLookupBlocks(pd, userId, user) ==
  /\ userId # pd.creatorId /\ user.found
  /\ user.ageDays >= MIN_VOTER_ACCOUNT_AGE_DAYS /\ user.karma >= MIN_VOTER_TOTAL_KARMA
  /\ user.banned = "no"

isEligibleVoter(pd, userId, user) ==
  IF userId = pd.creatorId THEN FALSE
  ELSE IF ~user.found THEN FALSE
  ELSE IF user.ageDays < MIN_VOTER_ACCOUNT_AGE_DAYS THEN FALSE
  ELSE IF user.karma < MIN_VOTER_TOTAL_KARMA THEN FALSE
  ELSE IF user.banned = "yes" THEN FALSE
  ELSE TRUE     \* not banned, or the banned lookup threw

-----------------------------------------------------------------------------
(* Book-chain validation                                                   *)

RECURSIVE BookWalk(_, _, _)
\* the loop of invalidateBrokenBookVotes over the sorted placements
BookWalk(currentUserVotes, placements, canContinueBook) ==
  IF placements = <<>> THEN <<>>
  ELSE LET id == Head(placements).id
           rest == Tail(placements)
       IN IF id \notin DOMAIN currentUserVotes
          THEN BookWalk(currentUserVotes, rest, FALSE)
          ELSE IF currentUserVotes[id] = "Book"
          THEN IF ~canContinueBook
               THEN <<id>> \o BookWalk(currentUserVotes, rest, canContinueBook)
               ELSE BookWalk(currentUserVotes, rest, canContinueBook)
          ELSE BookWalk(currentUserVotes, rest, FALSE)

invalidatedNone(currentUserVotes, pd) == <<>>

\* invalidateBrokenBookVotes: the badge ids it collects
invalidatedBadgeIdsOf(currentUserVotes, pd) ==
  BookWalk(currentUserVotes, SortByOrder(pd.placements), TRUE)

SeqRange(s) == {s[i] : i \in 1..Len(s)}

\* invalidateBrokenBookVotes: hDel of each invalidated badge from the personal view
PurgePersonal(uv, invalidated) == HDel(uv, SeqRange(invalidated))

PurgeAggregateAlways(vs, userId, invalidated, eligible) ==
  [b \in DOMAIN vs |->
     IF b \in SeqRange(invalidated) THEN HDel(vs[b], {userId}) ELSE vs[b]]

\* invalidateBrokenBookVotes: if (eligible) hDel of the voter from each invalidated badge
PurgeAggregate(vs, userId, invalidated, eligible) ==
  [b \in DOMAIN vs |->
     IF eligible /\ b \in SeqRange(invalidated)
     THEN HDel(vs[b], {userId}) ELSE vs[b]]

WriteAggregateVoteAlways(vs, badgeId, userId, cls, eligible) ==
  [vs EXCEPT ![badgeId] = HSet(@, userId, cls)]

WriteAggregateVoteToggle(vs, badgeId, userId, cls, eligible) ==
  IF ~eligible THEN vs
  ELSE IF userId \in DOMAIN vs[badgeId] /\ vs[badgeId][userId] = cls
  THEN [vs EXCEPT ![badgeId] = HDel(@, {userId})]
  ELSE [vs EXCEPT ![badgeId] = HSet(@, userId, cls)]

\* onVoteBadge: if (eligible) hSet(votesKey(postId, badgeId), {[userId]: classification})
WriteAggregateVote(vs, badgeId, userId, cls, eligible) ==
  IF eligible THEN [vs EXCEPT ![badgeId] = HSet(@, userId, cls)] ELSE vs

-----------------------------------------------------------------------------
(* Flair and finalization                                                  *)

NoVotesFlair ==          \* NO_VOTES_FLAIR_TEXT, set by onCreatePost
  [noVotes |-> TRUE, visible |-> FALSE, elo |-> 0, hasCount |-> FALSE,
   count |-> 0, colorized |-> FALSE]

NoUserFlair == [text |-> "none", elo |-> 0]

\* the external calls of the flair path, in the order they are made; a
\* request is handed the first of them that fails, if any
FlairCalls == <<"setPostFlair", "getUserFlair", "setUserFlair", "sendPrivateMessage">>
Failures == {"none"} \cup {FlairCalls[i] : i \in 1..Len(FlairCalls)}

\* error: a rejection left the flair path and reached the handler;
\* logged: the failing call a catch block wrote to the log
Platform(fin, noCount, pf, uf, pm) ==
  [eloFinalized |-> fin, eloNoCountFlairApplied |-> noCount, postFlair |-> pf,
   userFlair |-> uf, pmSent |-> pm, error |-> FALSE, logged |-> "none"]

\* try { ... } catch (err) { console.error(...) }: every failing call ends
\* the function where it stands
tryUpdateUserFlair(pst, pd, elo, voteCountAtTimeout, failing) ==
  IF ~(pd.eloSide = "me" \/ pd.titleMe) THEN pst               \* !isMeTarget
  ELSE IF failing = "getUserFlair" THEN [pst EXCEPT !.logged = failing]
  ELSE IF pst.userFlair.text = "other" THEN pst               \* flair text without an Elo
  ELSE IF pst.userFlair.text = "elo" /\ pst.userFlair.elo # 0
          /\ elo <= pst.userFlair.elo THEN pst                 \* curUserElo && elo <= curUserElo
  ELSE IF failing = "setUserFlair" THEN [pst EXCEPT !.logged = failing]
  ELSE IF failing = "sendPrivateMessage"
  THEN [pst EXCEPT !.userFlair = [text |-> "elo", elo |-> elo], !.logged = failing]
  ELSE [pst EXCEPT !.userFlair = [text |-> "elo", elo |-> elo],
                   !.pmSent = @ + 1]

PostFlairOf(elo, voteCount, options) ==
  [noVotes |-> FALSE,
   visible |-> options.showVisibleElo,
   elo |-> IF options.showVisibleElo THEN elo ELSE 0,
   hasCount |-> options.includeVoteCount,
   count |-> IF options.includeVoteCount THEN voteCount ELSE 0,
   colorized |-> options.colorize]

updatePostFlairUncaught(pst, pd, elo, voteCount, options, failing) ==
  IF failing = "setPostFlair" THEN [pst EXCEPT !.error = TRUE, !.logged = failing]
  ELSE IF options.tryUserFlair
  THEN tryUpdateUserFlair([pst EXCEPT !.postFlair = PostFlairOf(elo, voteCount, options)],
                          pd, elo, voteCount, failing)
  ELSE [pst EXCEPT !.postFlair = PostFlairOf(elo, voteCount, options)]

updatePostFlair(pst, pd, elo, voteCount, options, failing) ==
  IF failing = "setPostFlair" THEN [pst EXCEPT !.logged = failing]
  ELSE IF options.tryUserFlair
  THEN tryUpdateUserFlair([pst EXCEPT !.postFlair = PostFlairOf(elo, voteCount, options)],
                          pd, elo, voteCount, failing)
  ELSE [pst EXCEPT !.postFlair = PostFlairOf(elo, voteCount, options)]

\* JSON.parse of tt:elo, [] when the key is absent
EloArr(key) == IF key.set THEN key.arr ELSE <<>>

Marked(pst) ==
  [pst EXCEPT !.eloFinalized = TRUE, !.eloNoCountFlairApplied = TRUE]

\* finalizeEloIfTimedOut from the vote count on
FinalizeWithAnyCount(pst, pd, eloArr, voteCount, failing) ==
  IF voteCount < MIN_VOTES_FOR_POST_FLAIR THEN Marked(pst)
  ELSE Marked(updatePostFlair(pst, pd, MathRound(interquartileMean(eloArr)), voteCount,
                [showVisibleElo |-> TRUE, colorize |-> TRUE,
                 tryUserFlair |-> ~pst.eloFinalized, includeVoteCount |-> FALSE],
                failing))

FinalizeWith(pst, pd, eloArr, voteCount, failing) ==
  IF voteCount < MIN_VOTES_FOR_POST_FLAIR THEN Marked(pst)
  ELSE Marked(updatePostFlair(pst, pd, MathRound(interquartileMean(eloArr)), voteCount,
                [showVisibleElo |-> TRUE,
                 colorize |-> voteCount >= MIN_VOTES_TO_SHOW_ELO_IN_POST_FLAIR,
                 tryUserFlair |-> voteCount >= MIN_VOTES_TO_SHOW_ELO_IN_POST_FLAIR
                                    /\ ~pst.eloFinalized,
                 includeVoteCount |-> FALSE],
                failing))

finalizeEloNever(pst, pd, t, eloKey, failing) == pst

finalizeEloAgain(pst, pd, t, eloKey, failing) ==
  IF pd.mode # "vote" THEN pst
  ELSE IF isVoteWindowOpen(pd, t) THEN pst
  ELSE FinalizeWith(pst, pd, EloArr(eloKey), Len(EloArr(eloKey)), failing)

finalizeEloIfTimedOut(pst, pd, t, eloKey, failing) ==
  IF pd.mode # "vote" THEN pst
  ELSE IF isVoteWindowOpen(pd, t) THEN pst
  ELSE IF pst.eloFinalized /\ pst.eloNoCountFlairApplied THEN pst
  ELSE FinalizeWith(pst, pd, EloArr(eloKey), Len(EloArr(eloKey)), failing)

-----------------------------------------------------------------------------
(* Consensus cache                                                         *)

NoCacheEntry == [set |-> FALSE, consensus |-> <<>>, expiresAt |-> 0]

\* clearConsensusCache
ClearedCache == [open |-> NoCacheEntry, closed |-> NoCacheEntry]

CacheSlot(voteWindowOpen) == IF voteWindowOpen THEN "open" ELSE "closed"

\* What redis.get can return for the two keys of an entry. The payload is
\* missing, a string JSON.parse rejects, the JSON of a consensus record, or
\* other JSON; the metadata is missing, a string JSON.parse rejects (or JSON
\* null), JSON without a numeric expiresAt, or JSON with one.
PayloadKinds == {"missing", "unparseable", "json", "other-json"}
MetaKinds == {"missing", "unparseable", "no-number", "json"}

readConsensusCacheLate(rawConsensus, rawMeta, t) ==
  /\ rawConsensus \in {"json", "other-json"}
  /\ rawMeta.kind = "json" /\ ~(rawMeta.expiresAt < t)

\* readConsensusCache: TRUE when a value is returned, FALSE when null is
readConsensusCache(rawConsensus, rawMeta, t) ==
  IF rawConsensus = "missing" \/ rawMeta.kind = "missing" THEN FALSE
  ELSE IF rawMeta.kind = "unparseable" THEN FALSE
  ELSE IF rawMeta.kind = "no-number" \/ rawMeta.expiresAt <= t THEN FALSE
  ELSE rawConsensus # "unparseable"

\* the two keys of an entry the handlers wrote or deleted
RawConsensus(e) == IF e.set THEN "json" ELSE "missing"
RawMeta(e) ==
  IF e.set THEN [kind |-> "json", expiresAt |-> e.expiresAt]
  ELSE [kind |-> "missing", expiresAt |-> 0]

CacheHit(c, voteWindowOpen, t) ==
  readConsensusCache(RawConsensus(c[CacheSlot(voteWindowOpen)]),
                     RawMeta(c[CacheSlot(voteWindowOpen)]), t)

writeConsensusCacheLongLived(c, voteWindowOpen, consensus, t) ==
  [c EXCEPT ![CacheSlot(voteWindowOpen)] =
     [set |-> TRUE, consensus |-> consensus,
      expiresAt |-> t + 2 * CONSENSUS_CACHE_TTL_MS]]

writeConsensusCache(c, voteWindowOpen, consensus, t) ==
  [c EXCEPT ![CacheSlot(voteWindowOpen)] =
     [set |-> TRUE, consensus |-> consensus,
      expiresAt |-> t + CONSENSUS_CACHE_TTL_MS]]

-----------------------------------------------------------------------------
(* Moderators                                                              *)

NoModCacheEntry == [set |-> FALSE, value |-> FALSE, expiresAt |-> 0]

\* the cached answer is served while expiresAt > Date.now()
ModCacheHit(entry, t) == entry.set /\ entry.expiresAt > t

isCurrentUserModeratorUncached(entry, isMod, modLookup, t) ==
  modLookup = "ok" /\ isMod

\* isCurrentUserModerator: a failing getModerators answers false
isCurrentUserModerator(entry, isMod, modLookup, t) ==
  IF ModCacheHit(entry, t) THEN entry.value
  ELSE modLookup = "ok" /\ isMod

\* isCurrentUserModerator: the answer of a lookup that succeeded is cached
ModeratorCacheAfter(entry, isMod, modLookup, t) ==
  IF ModCacheHit(entry, t) \/ modLookup # "ok" THEN entry
  ELSE [set |-> TRUE, value |-> isMod, expiresAt |-> t + MODERATOR_CACHE_TTL_MS]

-----------------------------------------------------------------------------
(* Requests and responses                                                  *)

NoUser == [lookup |-> "ok", found |-> FALSE, ageDays |-> 0, karma |-> 0, banned |-> "no"]

NoRequest ==
  [op |-> "none", status |-> 0, userId |-> "", user |-> NoUser, again |-> FALSE,
   overwrote |-> FALSE,
   badgeId |-> "",
   classification |-> "", elo |-> 0, counted |-> FALSE, windowOpen |-> TRUE,
   fromCache |-> FALSE, consensus |-> <<>>, invalidatedBadgeIds |-> <<>>,
   hasConsensusElo |-> FALSE, consensusElo |-> 0, voteCount |-> 0,
   logged |-> "none", ranFinalization |-> FALSE,
   afterCountedVote |-> FALSE, isModerator |-> FALSE,
   deletedIds |-> {}, orderChanged |-> FALSE]

\* a request answered with an error: { error, status }
Rejected(op, status, userId, open) ==
  [NoRequest EXCEPT !.op = op, !.status = status, !.userId = userId,
                    !.windowOpen = open]

\* history kept with the response: "again" when the request repeats the one
\* answered last, "overwrote" when it replaced a different vote of the voter.
\* the request repeats the one answered last: same voter, same body, same eligibility
Repeats(op, userId, badgeId, cls, elo, eligible) ==
  /\ last.op = op /\ last.status = 200 /\ last.userId = userId
  /\ last.badgeId = badgeId /\ last.classification = cls /\ last.elo = elo
  /\ last.counted = eligible

ClampEloNoFloor(elo) == IF elo > MAX_ELO THEN MAX_ELO ELSE elo

\* Math.max(MIN_ELO, Math.min(MAX_ELO, body.elo))
ClampElo(elo) ==
  LET capped == IF MAX_ELO < elo THEN MAX_ELO ELSE elo
  IN IF MIN_ELO > capped THEN MIN_ELO ELSE capped

EloArrAppended(allEloVoters, oldKey, elo, eligible) ==
  IF eligible THEN Append(EloArr(oldKey), elo) ELSE EloArr(oldKey)

\* onVoteElo: eloArr = Object.values(allEloVoters).map(Number)
EloArrOf(allEloVoters, oldKey, elo, eligible) == HashValues(allEloVoters)

KeepConsensusCache(c, allConsensus, t) == c

ClearConsensusCacheOnly(c, allConsensus, t) == ClearedCache

\* onVoteBadge: clearConsensusCache, then writeConsensusCache(postId, true, allConsensus)
RefreshConsensusCache(c, allConsensus, t) ==
  writeConsensusCache(ClearedCache, TRUE, allConsensus, t)

\* onInit: the consensus entry of one placement
SurfaceAfterClose(computed, voteWindowOpen) ==
  IF /\ ~voteWindowOpen
     /\ computed.classification = NullClassification
     /\ computed.totalVotes > 0
  THEN [computed EXCEPT !.classification =
          iqmToClassification(computed.iqm, computed.voteCounts,
                              computed.totalVotes)]
  ELSE computed

InitConsensusEntry(allVotes, voteWindowOpen) ==
  SurfaceAfterClose(computeBadgeConsensus(allVotes), voteWindowOpen)

-----------------------------------------------------------------------------
(* Initial state: the post as onCreatePost stores it, no vote of the       *)
(* modelled voters cast yet; the first badge may already carry the counted *)
(* votes of a crowd one short of the quorum.                               *)

CrowdVote(u) == IF u \in {CrowdNames[i] : i \in 1..5} THEN "Book" ELSE "Best"

CrowdVotes == [u \in Crowd |-> CrowdVote(u)]

\* the post with the first n placements
PostWith(n) ==
  [mode |-> "vote", creatorId |-> Creator, createdAtMs |-> TickMs,
   eloSide |-> "me", titleMe |-> FALSE,
   placements |-> [i \in 1..n |-> [id |-> BadgeIds[i], order |-> i - 1]]]

\* the state of a post just created, apart from the calls under study
InitStore(post, ballots) ==
  /\ now = TickMs
  /\ postData = post
  /\ ballot \in ballots
  /\ \E crowded \in BOOLEAN :
        votes = [b \in {post.placements[i].id : i \in 1..Len(post.placements)} |->
                   IF crowded /\ ballot = "classification" /\ b = BadgeIds[1]
                   THEN CrowdVotes ELSE EmptyHash]
  /\ userVotes = [u \in Users |-> EmptyHash]
  /\ userElo = EmptyHash
  /\ eloVoters = EmptyHash
  /\ eloVotes = [set |-> FALSE, arr |-> <<>>]
  /\ eloFinalized = FALSE
  /\ eloNoCountFlairApplied = FALSE
  /\ cache = ClearedCache
  /\ postFlair = NoVotesFlair
  /\ userFlair = NoUserFlair
  /\ pmSent = 0
  /\ last = NoRequest
  /\ lastCounted = [b \in {post.placements[i].id : i \in 1..Len(post.placements)} |->
                      EmptyHash]
  /\ lastCountedElo = EmptyHash
  /\ iqmIn = <<>>
  /\ iqmOut = [done |-> FALSE, result |-> Rat(0, 1)]
  /\ moderators = {Moderator}
  /\ finalizers = <<>>
  /\ closedPosts = <<>>
  /\ flairHigh = 0

\* no call under study
NoCacheRead ==
  [rawConsensus |-> "missing", rawMeta |-> [kind |-> "missing", expiresAt |-> 0],
   writtenAt |-> 0, readAt |-> 0, done |-> FALSE, served |-> FALSE]

\* a request slot with no request in it
IdleEloCall == [pc |-> "idle", userId |-> "", elo |-> 0, allEloVoters |-> EmptyHash]

IdleBadgeCall ==
  [pc |-> "idle", op |-> "", userId |-> "", badgeId |-> "", classification |-> "",
   voteWindowOpen |-> FALSE, invalidatedBadgeIds |-> <<>>, pending |-> <<>>,
   consensus |-> <<>>, fromCache |-> FALSE, wroteCacheAt |-> 0]

\* nothing tallied yet
NoTally == [entries |-> <<>>, done |-> FALSE, result |-> ConsensusOfEntries(<<>>)]

\* the renders that can be dispatched
Uids == {"uid1", "uid2", "uid3"}

IdleTrigger ==
  [pc |-> "idle", userId |-> "", voteValue |-> 0, karma |-> 0, ageDays |-> 0,
   eloVotes |-> <<>>, accepted |-> FALSE]

\* no job scheduled, no upload attempted
NoRender ==
  [dispatched |-> FALSE, job |-> "none", attempt |-> 0, uploads |-> 0,
   failures |-> 0, posted |-> FALSE]

NoCalls ==
  /\ eloCalls = [r \in Requests |-> IdleEloCall]
  /\ badgeCalls = [r \in Requests |-> IdleBadgeCall]
  /\ tally = NoTally
  /\ voters = EmptyHash
  /\ elo_votes = <<>>
  /\ triggers = [r \in Requests |-> IdleTrigger]
  /\ render = [u \in Uids |-> NoRender]

InitWith(post, ballots) ==
  /\ InitStore(post, ballots)
  /\ mapped = NoMapping
  /\ cacheRead = NoCacheRead
  /\ NoCalls

\* every viewer has opened the post when it was created: the answers of
\* isCurrentUserModerator are cached from then on
ViewedAtCreation ==
  [u \in Users \cup {Moderator} |->
     [set |-> TRUE, value |-> u = Moderator,
      expiresAt |-> TickMs + MODERATOR_CACHE_TTL_MS]]

Init ==
  /\ InitWith(PostWith(1), {"classification", "rating"})
  /\ modCache = ViewedAtCreation


-----------------------------------------------------------------------------
(* Handlers                                                                *)

platform == Platform(eloFinalized, eloNoCountFlairApplied, postFlair, userFlair, pmSent)

SetPlatform(pst) ==
  /\ eloFinalized' = pst.eloFinalized
  /\ eloNoCountFlairApplied' = pst.eloNoCountFlairApplied
  /\ postFlair' = pst.postFlair
  /\ userFlair' = pst.userFlair
  /\ pmSent' = pst.pmSent

\* history: the request is the one that set the two markers
SetsMarkers(pst) ==
  /\ ~(eloFinalized /\ eloNoCountFlairApplied)
  /\ pst.eloFinalized /\ pst.eloNoCountFlairApplied

Tick ==
  /\ now + TickMs <= MaxNowMs
  /\ now' = now + TickMs
  /\ UNCHANGED <<postData, votes, userVotes, userElo, eloVoters, eloVotes,
                 eloFinalized, eloNoCountFlairApplied, cache, postFlair,
                 userFlair, pmSent, last, lastCounted, lastCountedElo,
                 iqmIn, iqmOut, ballot, modVars, raceVars, studyVars>>

\* onVoteBadge from "Recompute all consensus" on
RespondToBadgeVote(userId, badgeId, cls, user, eligible, invalidatedBadgeIds, aggregate, allConsensus) ==
  /\ votes' = aggregate
  /\ cache' = RefreshConsensusCache(cache, allConsensus, now)
  /\ lastCounted' =
       IF eligible
       THEN [b \in DOMAIN lastCounted |->
               IF b \in SeqRange(invalidatedBadgeIds) THEN HDel(lastCounted[b], {userId})
               ELSE IF b = badgeId THEN HSet(lastCounted[b], userId, cls)
               ELSE lastCounted[b]]
       ELSE lastCounted
  /\ last' = [NoRequest EXCEPT
                !.op = "vote-badge", !.status = 200, !.userId = userId,
                !.user = user,
                !.again = Repeats("vote-badge", userId, badgeId, cls, 0, eligible),
                !.overwrote = /\ badgeId \in DOMAIN userVotes[userId]
                              /\ userVotes[userId][badgeId] # cls,
                !.badgeId = badgeId, !.classification = cls,
                !.counted = eligible, !.windowOpen = TRUE,
                !.consensus = allConsensus,
                !.invalidatedBadgeIds = invalidatedBadgeIds]

\* onVoteBadge from the call of invalidateBrokenBookVotes on
ValidateBadgeVote(userId, badgeId, cls, user, eligible, written, counted, invalidatedBadgeIds) ==
  /\ userVotes' = [userVotes EXCEPT ![userId] = PurgePersonal(written, invalidatedBadgeIds)]
  /\ RespondToBadgeVote(userId, badgeId, cls, user, eligible, invalidatedBadgeIds,
       PurgeAggregate(counted, userId, invalidatedBadgeIds, eligible),
       [b \in PlacementIds(postData) |->
          computeBadgeConsensus(
            PurgeAggregate(counted, userId, invalidatedBadgeIds, eligible)[b])])

\* onVoteBadge from the eligibility check on
StoreBadgeVote(userId, badgeId, cls, user, eligible) ==
  ValidateBadgeVote(userId, badgeId, cls, user, eligible,
    HSet(userVotes[userId], badgeId, cls),
    WriteAggregateVote(votes, badgeId, userId, cls, eligible),
    invalidatedBadgeIdsOf(HSet(userVotes[userId], badgeId, cls), postData))

\* onVoteBadge
VoteBadge(userId, badgeId, cls, user) ==
  \E backfill \in BackfillOutcomes(postData) :
  LET open == isVoteWindowOpen(getPostData(postData, backfill), now) IN
  /\ postData' = getPostData(postData, backfill)
  /\ UNCHANGED <<now, userElo, eloVoters, eloVotes, eloFinalized,
                 eloNoCountFlairApplied, postFlair, userFlair, pmSent,
                 lastCountedElo, iqmIn, iqmOut, ballot, modVars, raceVars, studyVars>>
  /\ IF RejectSelfVote(postData, userId)
     THEN /\ last' = Rejected("vote-badge", 403, userId, open)
          /\ UNCHANGED <<votes, userVotes, cache, lastCounted>>
     ELSE IF ~open
     THEN /\ last' = Rejected("vote-badge", 403, userId, open)
          /\ UNCHANGED <<votes, userVotes, cache, lastCounted>>
     ELSE IF badgeId \notin PlacementIds(postData)
     THEN /\ last' = Rejected("vote-badge", 500, userId, open)
          /\ UNCHANGED <<votes, userVotes, cache, lastCounted>>
     ELSE IF UserLookupThrows(postData, userId, user)
     THEN /\ last' = [Rejected("vote-badge", 500, userId, open) EXCEPT !.user = user]
          /\ UNCHANGED <<votes, userVotes, cache, lastCounted>>
     ELSE StoreBadgeVote(userId, badgeId, cls, user,
                         isEligibleVoter(postData, userId, user))

\* onVoteElo from the return statement on
RespondToEloVote(userId, eloIn, user, elo, eligible, eloArr, consensusElo, pst) ==
  /\ SetPlatform(pst)
  /\ lastCountedElo' = IF eligible THEN HSet(lastCountedElo, userId, elo)
                       ELSE lastCountedElo
  /\ last' = [NoRequest EXCEPT
                !.op = "vote-elo", !.status = IF pst.error THEN 500 ELSE 200,
                !.userId = userId, !.user = user,
                !.again = Repeats("vote-elo", userId, "", "", eloIn, eligible),
                !.overwrote = /\ userId \in DOMAIN userElo
                              /\ userElo[userId] # elo,
                !.elo = eloIn, !.counted = eligible, !.windowOpen = TRUE,
                !.hasConsensusElo = TRUE, !.consensusElo = consensusElo,
                !.voteCount = Len(eloArr), !.logged = pst.logged,
                !.ranFinalization = SetsMarkers(pst)]

\* onVoteElo from the consensus on; it is reached with the window of the post
\* data just read open, and then the window of the stored post data is open too
FlairEloVote(userId, eloIn, user, elo, eligible, eloArr, consensusElo, failing) ==
  RespondToEloVote(userId, eloIn, user, elo, eligible, eloArr, consensusElo,
    finalizeEloIfTimedOut(
      IF Len(eloArr) > 0 /\ isVoteWindowOpen(postData, now)
      THEN updatePostFlair(platform, postData, consensusElo, Len(eloArr),
             [showVisibleElo |-> Len(eloArr) >= MIN_VOTES_TO_SHOW_ELO_IN_POST_FLAIR,
              colorize |-> FALSE, tryUserFlair |-> FALSE,
              includeVoteCount |-> TRUE],
             failing)
      ELSE platform,
      postData, now, [set |-> TRUE, arr |-> eloArr], failing))

\* onVoteElo from the write of tt:elo on
TallyEloVote(userId, eloIn, user, elo, eligible, eloArr, failing) ==
  /\ eloVotes' = [set |-> TRUE, arr |-> eloArr]
  /\ FlairEloVote(userId, eloIn, user, elo, eligible, eloArr,
       IF Len(eloArr) > 0 THEN MathRound(interquartileMean(eloArr)) ELSE elo,
       failing)

\* onVoteElo from the eligibility check on
StoreEloVote(userId, eloIn, user, elo, eligible, allEloVoters, failing) ==
  /\ userElo' = HSet(userElo, userId, elo)
  /\ eloVoters' = allEloVoters
  /\ TallyEloVote(userId, eloIn, user, elo, eligible,
       EloArrOf(allEloVoters, eloVotes, elo, eligible), failing)

\* onVoteElo
VoteElo(userId, eloIn, user, failing) ==
  \E backfill \in BackfillOutcomes(postData) :
  LET open == isVoteWindowOpen(getPostData(postData, backfill), now) IN
  /\ postData' = getPostData(postData, backfill)
  /\ UNCHANGED <<now, votes, userVotes, cache, lastCounted, iqmIn, iqmOut,
                 ballot, modVars, raceVars, studyVars>>
  /\ IF RejectSelfVote(postData, userId) \/ ~open
     THEN /\ last' = Rejected("vote-elo", 403, userId, open)
          /\ UNCHANGED <<userElo, eloVoters, eloVotes, eloFinalized,
                         eloNoCountFlairApplied, postFlair, userFlair, pmSent,
                         lastCountedElo>>
     ELSE IF UserLookupThrows(postData, userId, user)
     THEN /\ last' = [Rejected("vote-elo", 500, userId, TRUE) EXCEPT !.user = user]
          /\ UNCHANGED <<userElo, eloVoters, eloVotes, eloFinalized,
                         eloNoCountFlairApplied, postFlair, userFlair, pmSent,
                         lastCountedElo>>
     ELSE StoreEloVote(userId, eloIn, user, ClampElo(eloIn),
            isEligibleVoter(postData, userId, user),
            IF isEligibleVoter(postData, userId, user)
            THEN HSet(eloVoters, userId, ClampElo(eloIn)) ELSE eloVoters,
            failing)

\* onInit from the consensus lookup on
RespondToInit(userId, voteWindowOpen, hit, consensus, pst, isModerator) ==
  /\ SetPlatform(pst)
  /\ cache' = IF postData.mode = "vote" /\ ~hit
              THEN writeConsensusCache(cache, voteWindowOpen, consensus, now)
              ELSE cache
  /\ last' = [NoRequest EXCEPT
                !.op = "init", !.status = IF pst.error THEN 500 ELSE 200,
                !.userId = userId,
                !.windowOpen = voteWindowOpen, !.fromCache = hit,
                !.consensus = consensus,
                !.hasConsensusElo = Len(EloArr(eloVotes)) > 0,
                !.consensusElo = IF Len(EloArr(eloVotes)) > 0
                                 THEN MathRound(interquartileMean(EloArr(eloVotes)))
                                 ELSE 0,
                !.voteCount = Len(EloArr(eloVotes)),
                !.logged = pst.logged,
                !.ranFinalization = SetsMarkers(pst),
                !.afterCountedVote = /\ last.op = "vote-badge" /\ last.status = 200
                                     /\ last.counted,
                !.isModerator = isModerator]

\* onInit
OnInit(userId, failing, modLookup) ==
  \E backfill \in BackfillOutcomes(postData) :
  LET voteWindowOpen == isVoteWindowOpen(getPostData(postData, backfill), now)
      hit == postData.mode = "vote" /\ CacheHit(cache, voteWindowOpen, now)
  IN /\ postData' = getPostData(postData, backfill)
     /\ modCache' = [modCache EXCEPT ![userId] =
                       ModeratorCacheAfter(@, userId \in moderators, modLookup, now)]
     /\ RespondToInit(userId, voteWindowOpen, hit,
          IF postData.mode # "vote" THEN <<>>
          ELSE IF hit THEN cache[CacheSlot(voteWindowOpen)].consensus
          ELSE [b \in PlacementIds(postData) |->
                  InitConsensusEntry(votes[b], voteWindowOpen)],
          finalizeEloIfTimedOut(platform, getPostData(postData, backfill), now,
                                eloVotes, failing),
          isCurrentUserModerator(modCache[userId], userId \in moderators, modLookup, now))
     /\ UNCHANGED <<now, votes, userVotes, userElo, eloVoters, eloVotes,
                    lastCounted, lastCountedElo, iqmIn, iqmOut, ballot, moderators,
                    raceVars, studyVars>>

\* the answers the user lookups can give for a user: every outcome for u1;
\* u2 is in good standing, and the creator's record is never looked up by a
\* handler that acts on it
RecordsOf(u) == IF u = "u1" THEN UserRecords
                ELSE {r \in UserRecords : GoodStanding(r)}

Viewers == {Creator, "u1"}

\* The electorate of one behaviour casts one kind of vote: the two vote
\* handlers read and write disjoint keys.
Next ==
  \/ Tick
  \/ /\ ballot = "classification"
     /\ \E u \in Users, b \in PlacementIds(postData) \cup {MissingBadge},
           c \in {"Book", "Best"} : \E r \in RecordsOf(u) : VoteBadge(u, b, c, r)
  \/ /\ ballot = "rating"
     /\ \E u \in Users, e \in EloInputs : \E r \in RecordsOf(u) : VoteElo(u, e, r, "none")
  \/ \E u \in Viewers : OnInit(u, "none", "ok")

Spec == Init /\ [][Next]_vars

-----------------------------------------------------------------------------
(* Failing flair calls: rating votes of voters in good standing and reads, *)
(* each request handed the external call that fails during it, if any.     *)

InitFail ==
  /\ InitWith(PostWith(1), {"rating"})
  /\ modCache = ViewedAtCreation

GoodRecord == CHOOSE r \in UserRecords : GoodStanding(r)

FailEloInputs == {1200, 1500}

NextFail ==
  \/ Tick
  \/ \E u \in Users, e \in FailEloInputs, f \in {"none", "setPostFlair"} :
        VoteElo(u, e, GoodRecord, f)
  \/ \E u \in Viewers, f \in Failures : OnInit(u, f, "ok")

SpecFail == InitFail /\ [][NextFail]_vars

-----------------------------------------------------------------------------
(* Votes only: one voter casting classification votes on three badges in   *)
(* sequence, or two voters casting rating votes; the clock stands still.   *)

InitVotes ==
  /\ InitWith(PostWith(3), {"classification", "rating"})
  /\ modCache = ViewedAtCreation

\* one user record per outcome of isEligibleVoter
VoterRecords ==
  {r \in UserRecords : r.lookup = "ok" /\ r.found /\ r.ageDays = 7 /\ r.banned = "no"}

NextVotes ==
  \/ /\ ballot = "classification"
     /\ \E b \in PlacementIds(postData), c \in VoteInputs, r \in VoterRecords :
           VoteBadge("u1", b, c, r)
  \/ /\ ballot = "rating"
     /\ \E u \in Voters, e \in EloInputs, r \in VoterRecords : VoteElo(u, e, r, "none")

SpecVotes == InitVotes /\ [][NextVotes]_vars

-----------------------------------------------------------------------------
(* Moderator edits: a post of two targets, one voter casting               *)
(* classification votes, edits sent by the moderator and by the voter, the *)
(* moderator list changing under the cache, and the clock stepping by the  *)
(* lifetime of a moderator cache entry.                                    *)

\* oldOrderMap.get(id): the order of the id, or none (-1) for an id not in the post
OldOrder(oldPlacements, id) ==
  IF \E i \in 1..Len(oldPlacements) : oldPlacements[i].id = id
  THEN oldPlacements[CHOOSE i \in 1..Len(oldPlacements) : oldPlacements[i].id = id].order
  ELSE -1

\* newPlacements.some((placement) => oldOrderMap.get(placement.id) !== placement.order)
OrderChanged(oldPlacements, newPlacements) ==
  \E i \in 1..Len(newPlacements) :
     OldOrder(oldPlacements, newPlacements[i].id) # newPlacements[i].order

IdsOf(placements) == {placements[i].id : i \in 1..Len(placements)}

\* removeBookVotesForBadge: hDel of every voter whose vote on the badge is Book
WithoutBookVotes(allVotes) ==
  HDel(allVotes, {u \in DOMAIN allVotes : allVotes[u] = "Book"})

\* onUpdatePost: the aggregate hashes after removeVotesForBadge of the deleted
\* ids and, if the order changed, removeBookVotesForBadge of the new ids
EditedVotes(vs, oldPlacements, newPlacements) ==
  [b \in IdsOf(newPlacements) |->
     IF b \notin DOMAIN vs THEN EmptyHash
     ELSE IF OrderChanged(oldPlacements, newPlacements) THEN WithoutBookVotes(vs[b])
     ELSE vs[b]]

\* onUpdatePost from the read of the existing post on
StoreEdit(userId, newPlacements) ==
  /\ postData' = [postData EXCEPT !.placements = newPlacements]
  /\ votes' = EditedVotes(votes, postData.placements, newPlacements)
  /\ lastCounted' = EditedVotes(lastCounted, postData.placements, newPlacements)
  /\ cache' = ClearedCache
  /\ last' = [NoRequest EXCEPT
                !.op = "update-post", !.status = 200, !.userId = userId,
                !.isModerator = TRUE,
                !.windowOpen = isVoteWindowOpen(postData, now),
                !.deletedIds = IdsOf(postData.placements) \ IdsOf(newPlacements),
                !.orderChanged = OrderChanged(postData.placements, newPlacements)]

\* onUpdatePost; the request carries one image with the placements, or no image
UpdatePost(userId, newPlacements, modLookup) ==
  /\ modCache' = [modCache EXCEPT ![userId] =
                    ModeratorCacheAfter(@, userId \in moderators, modLookup, now)]
  /\ UNCHANGED <<now, userVotes, userElo, eloVoters, eloVotes, eloFinalized,
                 eloNoCountFlairApplied, postFlair, userFlair, pmSent,
                 lastCountedElo, iqmIn, iqmOut, ballot, moderators, raceVars, studyVars>>
  /\ IF ~isCurrentUserModerator(modCache[userId], userId \in moderators, modLookup, now)
     THEN /\ last' = Rejected("update-post", 403, userId, isVoteWindowOpen(postData, now))
          /\ UNCHANGED <<postData, votes, lastCounted, cache>>
     ELSE IF newPlacements = <<>>
     THEN /\ last' = [Rejected("update-post", 500, userId,
                               isVoteWindowOpen(postData, now))
                        EXCEPT !.isModerator = TRUE]
          /\ UNCHANGED <<postData, votes, lastCounted, cache>>
     ELSE StoreEdit(userId, newPlacements)

\* the moderator is removed from, or added to, the community's moderators
ModeratorsChange ==
  /\ moderators' = IF Moderator \in moderators THEN moderators \ {Moderator}
                   ELSE moderators \cup {Moderator}
  /\ UNCHANGED <<now, postData, votes, userVotes, userElo, eloVoters, eloVotes,
                 eloFinalized, eloNoCountFlairApplied, cache, postFlair,
                 userFlair, pmSent, last, lastCounted, lastCountedElo,
                 iqmIn, iqmOut, ballot, modCache, raceVars, studyVars>>

\* the lifetime of a moderator cache entry passes
Expire ==
  /\ now + MODERATOR_CACHE_TTL_MS <= TickMs + MaxExpiries * MODERATOR_CACHE_TTL_MS
  /\ now' = now + MODERATOR_CACHE_TTL_MS
  /\ UNCHANGED <<postData, votes, userVotes, userElo, eloVoters, eloVotes,
                 eloFinalized, eloNoCountFlairApplied, cache, postFlair,
                 userFlair, pmSent, last, lastCounted, lastCountedElo,
                 iqmIn, iqmOut, ballot, modVars, raceVars, studyVars>>

Placement(id, order) == [id |-> id, order |-> order]

\* the placements an edit can carry: the post as created, its two targets
\* in swapped order, either target alone, and no image at all
EditInputs ==
  { <<Placement(BadgeIds[1], 0), Placement(BadgeIds[2], 1)>>,
    <<Placement(BadgeIds[1], 1), Placement(BadgeIds[2], 0)>>,
    <<Placement(BadgeIds[1], 0)>>,
    <<Placement(BadgeIds[2], 1)>>,
    <<>> }

Editors == {Moderator, "u1"}

InitEdit ==
  /\ InitWith(PostWith(2), {"classification"})
  /\ modCache = [u \in Users \cup {Moderator} |-> NoModCacheEntry]

NextEdit ==
  \/ \E b \in {BadgeIds[1], BadgeIds[2]}, c \in {"Book", "Best"}, r \in VoterRecords :
        VoteBadge("u1", b, c, r)
  \/ \E u \in Editors, p \in EditInputs, l \in {"ok", "throws"} : UpdatePost(u, p, l)
  \/ ModeratorsChange
  \/ Expire

SpecEdit == InitEdit /\ [][NextEdit]_vars

-----------------------------------------------------------------------------
(* Finalization step by step: two requests, each on one of two posts of    *)
(* the same creator whose windows have closed, run finalizeEloIfTimedOut   *)
(* one await at a time, in any interleaving. The rating votes of a closed  *)
(* post no longer change.                                                  *)

ClosedPostIds == {"p1", "p2"}

\* tt:elo of a closed post
ClosedEloArrs == {<<>>, <<1200, 1200>>, <<1500, 1500>>}

Idle ==
  [pc |-> "idle", post |-> "", alreadyFinalized |-> FALSE, noCountApplied |-> FALSE,
   curUserFlair |-> NoUserFlair]

nonRaceVars == <<now, postData, votes, userVotes, userElo, eloVoters, eloVotes, eloFinalized, eloNoCountFlairApplied, cache, postFlair, pmSent, last, lastCounted, lastCountedElo, iqmIn, iqmOut, ballot, moderators, modCache, studyVars>>

At(r, pc) == finalizers[r].pc = pc

Goto(r, pc) == finalizers' = [finalizers EXCEPT ![r].pc = pc]

PostOf(r) == closedPosts[finalizers[r].post]

\* Math.round(interquartileMean(eloArr))
ConsensusEloOf(r) == MathRound(interquartileMean(PostOf(r).eloArr))

\* voteCount >= MIN_VOTES_TO_SHOW_ELO_IN_POST_FLAIR
ShowVisibleElo(r) == Len(PostOf(r).eloArr) >= MIN_VOTES_TO_SHOW_ELO_IN_POST_FLAIR

\* a request on post q enters finalizeEloIfTimedOut: mode is "vote" and the
\* window is closed
Arrive(r, q) ==
  /\ At(r, "idle")
  /\ postData.mode = "vote" /\ ~isVoteWindowOpen(postData, now)
  /\ finalizers' = [finalizers EXCEPT ![r] = [Idle EXCEPT !.pc = "getFinalized", !.post = q]]
  /\ UNCHANGED <<nonRaceVars, closedPosts, userFlair, flairHigh>>

\* const finalized = await redis.get(eloFinalizedKey(postId))
GetFinalized(r) ==
  /\ At(r, "getFinalized")
  /\ finalizers' = [finalizers EXCEPT ![r].pc = "getNoCountApplied",
                                      ![r].alreadyFinalized = PostOf(r).eloFinalized]
  /\ UNCHANGED <<nonRaceVars, closedPosts, userFlair, flairHigh>>

\* (await redis.get(eloNoCountFlairAppliedKey(postId))) === "1", and the
\* return when both markers were read as set
GetNoCountApplied(r) ==
  /\ At(r, "getNoCountApplied")
  /\ finalizers' =
       IF finalizers[r].alreadyFinalized /\ PostOf(r).eloNoCountFlairApplied
       THEN [finalizers EXCEPT ![r] = Idle]
       ELSE [finalizers EXCEPT ![r].pc = "getEloVotes",
                               ![r].noCountApplied = PostOf(r).eloNoCountFlairApplied]
  /\ UNCHANGED <<nonRaceVars, closedPosts, userFlair, flairHigh>>

\* await redis.get(eloVotesKey(postId)) and the branch on voteCount
GetEloVotes(r) ==
  /\ At(r, "getEloVotes")
  /\ Goto(r, IF Len(PostOf(r).eloArr) < MIN_VOTES_FOR_POST_FLAIR
             THEN "setFinalized" ELSE "setPostFlair")
  /\ UNCHANGED <<nonRaceVars, closedPosts, userFlair, flairHigh>>

\* updatePostFlair: await reddit.setPostFlair(flairPayload)
SetPostFlair(r) ==
  /\ At(r, "setPostFlair")
  /\ closedPosts' = [closedPosts EXCEPT ![finalizers[r].post].postFlair =
                       PostFlairOf(ConsensusEloOf(r), Len(PostOf(r).eloArr),
                         [showVisibleElo |-> TRUE, colorize |-> ShowVisibleElo(r),
                          tryUserFlair |-> ShowVisibleElo(r)
                                             /\ ~finalizers[r].alreadyFinalized,
                          includeVoteCount |-> FALSE])]
  /\ Goto(r, IF ShowVisibleElo(r) /\ ~finalizers[r].alreadyFinalized
             THEN "getUserFlair" ELSE "setFinalized")
  /\ UNCHANGED <<nonRaceVars, userFlair, flairHigh>>

\* tryUpdateUserFlair up to `if (curUserElo && elo <= curUserElo) return`
GetUserFlair(r) ==
  /\ At(r, "getUserFlair")
  /\ finalizers' =
       IF \/ ~(postData.eloSide = "me" \/ postData.titleMe)
          \/ userFlair.text = "other"
          \/ /\ userFlair.text = "elo" /\ userFlair.elo # 0
             /\ ConsensusEloOf(r) <= userFlair.elo
       THEN [finalizers EXCEPT ![r].pc = "setFinalized"]
       ELSE [finalizers EXCEPT ![r].pc = "setUserFlair", ![r].curUserFlair = userFlair]
  /\ UNCHANGED <<nonRaceVars, closedPosts, userFlair, flairHigh>>

\* tryUpdateUserFlair: await reddit.setUserFlair(...)
SetUserFlair(r) ==
  /\ At(r, "setUserFlair")
  /\ userFlair' = [text |-> "elo", elo |-> ConsensusEloOf(r)]
  /\ flairHigh' = IF ConsensusEloOf(r) > flairHigh THEN ConsensusEloOf(r) ELSE flairHigh
  /\ Goto(r, "sendPrivateMessage")
  /\ UNCHANGED <<nonRaceVars, closedPosts>>

\* tryUpdateUserFlair: await reddit.sendPrivateMessage(...)
SendPrivateMessage(r) ==
  /\ At(r, "sendPrivateMessage")
  /\ closedPosts' = [closedPosts EXCEPT ![finalizers[r].post].pmSent = @ + 1]
  /\ Goto(r, "setFinalized")
  /\ UNCHANGED <<nonRaceVars, userFlair, flairHigh>>

\* await redis.set(eloFinalizedKey(postId), "1")
SetFinalized(r) ==
  /\ At(r, "setFinalized")
  /\ closedPosts' = [closedPosts EXCEPT ![finalizers[r].post].eloFinalized = TRUE]
  /\ Goto(r, "setNoCountApplied")
  /\ UNCHANGED <<nonRaceVars, userFlair, flairHigh>>

\* await redis.set(eloNoCountFlairAppliedKey(postId), "1"), and the return
SetNoCountApplied(r) ==
  /\ At(r, "setNoCountApplied")
  /\ closedPosts' = [closedPosts EXCEPT
                       ![finalizers[r].post].eloNoCountFlairApplied = TRUE]
  /\ finalizers' = [finalizers EXCEPT ![r] = Idle]
  /\ UNCHANGED <<nonRaceVars, userFlair, flairHigh>>

InitRace ==
  /\ now = TickMs + MAX_POST_AGE_TO_VOTE_MS + TickMs
  /\ postData = PostWith(1)
  /\ ballot = "rating"
  /\ votes = [b \in PlacementIds(PostWith(1)) |-> EmptyHash]
  /\ userVotes = [u \in Users |-> EmptyHash]
  /\ userElo = EmptyHash
  /\ eloVoters = EmptyHash
  /\ eloVotes = [set |-> FALSE, arr |-> <<>>]
  /\ eloFinalized = FALSE
  /\ eloNoCountFlairApplied = FALSE
  /\ cache = ClearedCache
  /\ postFlair = NoVotesFlair
  /\ userFlair = NoUserFlair
  /\ pmSent = 0
  /\ last = NoRequest
  /\ lastCounted = [b \in PlacementIds(PostWith(1)) |-> EmptyHash]
  /\ lastCountedElo = EmptyHash
  /\ iqmIn = <<>>
  /\ iqmOut = [done |-> FALSE, result |-> Rat(0, 1)]
  /\ mapped = NoMapping
  /\ cacheRead = NoCacheRead
  /\ NoCalls
  /\ moderators = {Moderator}
  /\ modCache = ViewedAtCreation
  /\ finalizers = [r \in Requests |-> Idle]
  /\ closedPosts \in [ClosedPostIds ->
                         [eloFinalized : {FALSE}, eloNoCountFlairApplied : {FALSE},
                          postFlair : {NoVotesFlair}, pmSent : {0},
                          eloArr : ClosedEloArrs]]
  /\ flairHigh = 0

NextRace ==
  \E r \in Requests :
     \/ \E q \in ClosedPostIds : Arrive(r, q)
     \/ GetFinalized(r)
     \/ GetNoCountApplied(r)
     \/ GetEloVotes(r)
     \/ SetPostFlair(r)
     \/ GetUserFlair(r)
     \/ SetUserFlair(r)
     \/ SendPrivateMessage(r)
     \/ SetFinalized(r)
     \/ SetNoCountApplied(r)

SpecRace == InitRace /\ [][NextRace]_vars

-----------------------------------------------------------------------------
(* interquartileMean on its own                                            *)

IqmValues == {-4, 1, 10}

IqmPush(v) ==
  /\ Len(iqmIn) < MaxIqmLen
  /\ iqmIn' = Append(iqmIn, v)
  /\ iqmOut' = [done |-> FALSE, result |-> Rat(0, 1)]
  /\ UNCHANGED <<now, postData, votes, userVotes, userElo, eloVoters, eloVotes,
                 eloFinalized, eloNoCountFlairApplied, cache, postFlair,
                 userFlair, pmSent, last, lastCounted, lastCountedElo, ballot,
                 modVars, raceVars, studyVars>>

IqmCompute ==
  /\ iqmOut' = [done |-> TRUE, result |-> interquartileMean(iqmIn)]
  /\ UNCHANGED <<now, postData, votes, userVotes, userElo, eloVoters, eloVotes,
                 eloFinalized, eloNoCountFlairApplied, cache, postFlair,
                 userFlair, pmSent, last, lastCounted, lastCountedElo, iqmIn, ballot,
                 modVars, raceVars, studyVars>>

NextIQM == (\E v \in IqmValues : IqmPush(v)) \/ IqmCompute

InitIQM ==
  /\ InitWith(PostWith(1), {"classification"})
  /\ modCache = ViewedAtCreation

SpecIQM == InitIQM /\ [][NextIQM]_vars

-----------------------------------------------------------------------------
(* iqmToClassification on its own: one call on an argument drawn from a   *)
(* grid of means and of Book and Miss counts                               *)

MaxIqmEighths == 28
MaxShareVotes == 4

\* means in steps of 1/8: every threshold, every weight and the points
\* between them
IqmGrid == {Rat(e, 8) : e \in -MaxIqmEighths..MaxIqmEighths}

\* the counts of a ballot box of at most MaxShareVotes votes; votes that are
\* neither Book nor Miss are counted under Good
ShareCounts ==
  {[c \in Classifications |->
      CASE c = "Book" -> b [] c = "Miss" -> m [] c = "Good" -> t - b - m
        [] OTHER -> 0] :
     <<t, b, m>> \in {x \in (0..MaxShareVotes) \X (0..MaxShareVotes) \X (0..MaxShareVotes) :
                      x[2] + x[3] <= x[1]}}

RECURSIVE SumCounts(_, _)
SumCounts(voteCounts, cs) ==
  IF cs = {} THEN 0
  ELSE LET c == CHOOSE x \in cs : TRUE
       IN voteCounts[c] + SumCounts(voteCounts, cs \ {c})

Classify ==
  /\ ~mapped.done
  /\ mapped' = [mapped EXCEPT !.done = TRUE,
                  !.result = iqmToClassification(mapped.iqm, mapped.voteCounts,
                                                 mapped.totalVotes)]
  /\ UNCHANGED <<now, postData, storeVars, postFlair, userFlair, pmSent, last,
                 lastCounted, lastCountedElo, iqmIn, iqmOut, ballot, modVars,
                 raceVars, cacheRead, eloCalls, badgeCalls, appVars>>

NextClassify == Classify

InitClassify ==
  /\ InitStore(PostWith(1), {"classification"})
  /\ modCache = ViewedAtCreation
  /\ cacheRead = NoCacheRead
  /\ NoCalls
  /\ \E iqm \in IqmGrid, voteCounts \in ShareCounts :
        mapped = [iqm |-> iqm, voteCounts |-> voteCounts,
                  totalVotes |-> SumCounts(voteCounts, Classifications),
                  done |-> FALSE, result |-> NullClassification]

SpecClassify == InitClassify /\ [][NextClassify]_vars

-----------------------------------------------------------------------------
(* readConsensusCache on its own: one read of an entry, as written by      *)
(* writeConsensusCache or damaged, some time after it was written          *)

MaxCacheAgeMs == 11000

\* ages on both sides of the TTL
CacheAges ==
  {0, 9000, CONSENSUS_CACHE_TTL_MS - 1, CONSENSUS_CACHE_TTL_MS,
   CONSENSUS_CACHE_TTL_MS + 1, MaxCacheAgeMs}

\* the metadata writeConsensusCache stores at time t, as kind reads it back
MetaWritten(kind, t) ==
  [kind |-> kind,
   expiresAt |-> IF kind = "json"
                 THEN writeConsensusCache(ClearedCache, TRUE, <<>>, t).open.expiresAt
                 ELSE 0]

ReadCache ==
  /\ ~cacheRead.done
  /\ cacheRead' = [cacheRead EXCEPT !.done = TRUE,
                     !.served = readConsensusCache(cacheRead.rawConsensus,
                                                   cacheRead.rawMeta, cacheRead.readAt)]
  /\ UNCHANGED <<now, postData, storeVars, postFlair, userFlair, pmSent, last,
                 lastCounted, lastCountedElo, iqmIn, iqmOut, ballot, modVars,
                 raceVars, mapped, eloCalls, badgeCalls, appVars>>

NextCacheRead == ReadCache

InitCacheRead ==
  /\ InitStore(PostWith(1), {"classification"})
  /\ modCache = ViewedAtCreation
  /\ mapped = NoMapping
  /\ NoCalls
  /\ \E payload \in PayloadKinds, kind \in MetaKinds, age \in CacheAges :
        cacheRead = [rawConsensus |-> payload, rawMeta |-> MetaWritten(kind, now),
                     writtenAt |-> now, readAt |-> now + age,
                     done |-> FALSE, served |-> FALSE]

SpecCacheRead == InitCacheRead /\ [][NextCacheRead]_vars

-----------------------------------------------------------------------------
(* The voting window over the life of a post: the post is stored with its  *)
(* creation time or, a legacy post, without it; voters in good standing    *)
(* vote, viewers read, and the clock keeps advancing up to MaxNowMs.       *)

LegacyPostWith(n) == [PostWith(n) EXCEPT !.createdAtMs = 0]

InitWindow ==
  /\ \/ InitWith(PostWith(1), {"classification", "rating"})
     \/ InitWith(LegacyPostWith(1), {"classification", "rating"})
  /\ modCache = ViewedAtCreation

NextWindow ==
  \/ Tick
  \/ /\ ballot = "classification"
     /\ \E u \in Users, c \in {"Book", "Best"} :
           VoteBadge(u, BadgeIds[1], c, GoodRecord)
  \/ /\ ballot = "rating"
     /\ \E u \in Users, e \in FailEloInputs : VoteElo(u, e, GoodRecord, "none")
  \/ \E u \in Viewers : OnInit(u, "none", "ok")

SpecWindow == InitWindow /\ [][NextWindow]_vars /\ WF_vars(Tick)

-----------------------------------------------------------------------------
(* onVoteElo step by step: two voters in good standing, each sending one   *)
(* rating vote while the window is open, one await at a time, in any       *)
(* interleaving.                                                           *)

RequestVoter(r) == IF r = "r1" THEN "u1" ELSE "u2"

EloAt(r, pc) == eloCalls[r].pc = pc

\* the request passed the creator and window checks and the voter is
\* eligible; await redis.set(userEloKey(postId, userId), String(elo))
EloArrive(r, eloIn) ==
  /\ EloAt(r, "idle")
  /\ ~RejectSelfVote(postData, RequestVoter(r)) /\ isVoteWindowOpen(postData, now)
  /\ isEligibleVoter(postData, RequestVoter(r), GoodRecord)
  /\ userElo' = HSet(userElo, RequestVoter(r), ClampElo(eloIn))
  /\ eloCalls' = [eloCalls EXCEPT ![r] =
                    [IdleEloCall EXCEPT !.pc = "hGetAll", !.userId = RequestVoter(r),
                                        !.elo = ClampElo(eloIn)]]
  /\ UNCHANGED <<now, postData, votes, userVotes, eloVoters, eloVotes, eloFinalized,
                 eloNoCountFlairApplied, cache, postFlair, userFlair, pmSent, last,
                 lastCounted, lastCountedElo, iqmIn, iqmOut, ballot, modVars,
                 raceVars, mapped, cacheRead, badgeCalls, appVars>>

\* const allEloVoters = await redis.hGetAll(`tt:elovoters:${postId}`)
EloGetVoters(r) ==
  /\ EloAt(r, "hGetAll")
  /\ eloCalls' = [eloCalls EXCEPT ![r].pc = "hSet", ![r].allEloVoters = eloVoters]
  /\ UNCHANGED <<now, postData, storeVars, postFlair, userFlair, pmSent, last,
                 lastCounted, lastCountedElo, iqmIn, iqmOut, ballot, modVars,
                 raceVars, mapped, cacheRead, badgeCalls, appVars>>

\* allEloVoters[userId] = String(elo); await redis.hSet(`tt:elovoters:...`)
EloSetVoter(r) ==
  /\ EloAt(r, "hSet")
  /\ eloVoters' = HSet(eloVoters, eloCalls[r].userId, eloCalls[r].elo)
  /\ eloCalls' = [eloCalls EXCEPT ![r].pc = "set",
                    ![r].allEloVoters = HSet(@, eloCalls[r].userId, eloCalls[r].elo)]
  /\ lastCountedElo' = HSet(lastCountedElo, eloCalls[r].userId, eloCalls[r].elo)
  /\ UNCHANGED <<now, postData, votes, userVotes, userElo, eloVotes, eloFinalized,
                 eloNoCountFlairApplied, cache, postFlair, userFlair, pmSent, last,
                 lastCounted, iqmIn, iqmOut, ballot, modVars,
                 raceVars, mapped, cacheRead, badgeCalls, appVars>>

\* await redis.set(eloVotesKey(postId), JSON.stringify(eloArr))
EloSetVotes(r) ==
  /\ EloAt(r, "set")
  /\ eloVotes' = [set |-> TRUE,
                  arr |-> EloArrOf(eloCalls[r].allEloVoters, eloVotes, eloCalls[r].elo, TRUE)]
  /\ eloCalls' = [eloCalls EXCEPT ![r].pc = "flair"]
  /\ UNCHANGED <<now, postData, votes, userVotes, userElo, eloVoters, eloFinalized,
                 eloNoCountFlairApplied, cache, postFlair, userFlair, pmSent, last,
                 lastCounted, lastCountedElo, iqmIn, iqmOut, ballot, modVars,
                 raceVars, mapped, cacheRead, badgeCalls, appVars>>

\* updatePostFlair with the consensus of the request's own eloArr, then
\* finalizeEloIfTimedOut and the response
EloFlair(r) ==
  /\ EloAt(r, "flair")
  /\ SetPlatform(
       finalizeEloIfTimedOut(
         IF isVoteWindowOpen(postData, now)
         THEN updatePostFlair(platform, postData,
                MathRound(interquartileMean(HashValues(eloCalls[r].allEloVoters))),
                Len(HashValues(eloCalls[r].allEloVoters)),
                [showVisibleElo |-> Len(HashValues(eloCalls[r].allEloVoters))
                                      >= MIN_VOTES_TO_SHOW_ELO_IN_POST_FLAIR,
                 colorize |-> FALSE, tryUserFlair |-> FALSE,
                 includeVoteCount |-> TRUE],
                "none")
         ELSE platform,
         postData, now, eloVotes, "none"))
  /\ eloCalls' = [eloCalls EXCEPT ![r].pc = "done"]
  /\ UNCHANGED <<now, postData, votes, userVotes, userElo, eloVoters, eloVotes,
                 cache, last, lastCounted, lastCountedElo, iqmIn, iqmOut, ballot,
                 modVars, raceVars, mapped, cacheRead, badgeCalls, appVars>>

InitEloRace ==
  /\ InitWith(PostWith(1), {"rating"})
  /\ modCache = ViewedAtCreation

NextEloRace ==
  \/ \E r \in Requests, e \in EloInputs : EloArrive(r, e)
  \/ \E r \in Requests : EloGetVoters(r)
  \/ \E r \in Requests : EloSetVoter(r)
  \/ \E r \in Requests : EloSetVotes(r)
  \/ \E r \in Requests : EloFlair(r)

SpecEloRace == InitEloRace /\ [][NextEloRace]_vars

-----------------------------------------------------------------------------
(* onVoteBadge and onInit step by step: two requests, classification votes *)
(* of one voter in good standing or reads, on a post of two placements,    *)
(* one await at a time, in any interleaving, while the clock advances.     *)

BadgeVoter == "u1"

BadgeAt(r, pc) == badgeCalls[r].pc = pc

\* what the steps of a request leave alone besides the keys they touch
badgeFrame == <<postData, userElo, eloVoters, eloVotes, postFlair, userFlair, pmSent, last, lastCounted, lastCountedElo, iqmIn, iqmOut, ballot, modVars, raceVars, mapped, cacheRead, eloCalls, appVars>>

BadgeTick ==
  /\ now + TickMs <= MaxNowMs
  /\ now' = now + TickMs
  /\ UNCHANGED <<badgeFrame, votes, userVotes, cache, eloFinalized,
                 eloNoCountFlairApplied, badgeCalls>>

\* the request passed the creator, window and badge checks and the voter is
\* eligible; await redis.hSet(userVotesKey(postId, userId), ...)
BadgeArrive(r, badgeId, cls) ==
  /\ BadgeAt(r, "idle")
  /\ ~RejectSelfVote(postData, BadgeVoter) /\ isVoteWindowOpen(postData, now)
  /\ badgeId \in PlacementIds(postData)
  /\ isEligibleVoter(postData, BadgeVoter, GoodRecord)
  /\ userVotes' = [userVotes EXCEPT ![BadgeVoter] = HSet(@, badgeId, cls)]
  /\ badgeCalls' = [badgeCalls EXCEPT ![r] =
                      [IdleBadgeCall EXCEPT !.pc = "hSetVotes", !.op = "vote-badge",
                                            !.userId = BadgeVoter, !.badgeId = badgeId,
                                            !.classification = cls,
                                            !.voteWindowOpen = TRUE]]
  /\ UNCHANGED <<now, badgeFrame, votes, cache, eloFinalized, eloNoCountFlairApplied>>

\* await redis.hSet(votesKey(postId, body.badgeId), ...)
BadgeSetVotes(r) ==
  /\ BadgeAt(r, "hSetVotes")
  /\ votes' = WriteAggregateVote(votes, badgeCalls[r].badgeId, badgeCalls[r].userId,
                                 badgeCalls[r].classification, TRUE)
  /\ badgeCalls' = [badgeCalls EXCEPT ![r].pc = "hGetAllUserVotes"]
  /\ UNCHANGED <<now, badgeFrame, userVotes, cache, eloFinalized, eloNoCountFlairApplied>>

\* invalidateBrokenBookVotes: hGetAll of the personal view and the walk
BadgeGetUserVotes(r) ==
  /\ BadgeAt(r, "hGetAllUserVotes")
  /\ badgeCalls' =
       [badgeCalls EXCEPT
          ![r].invalidatedBadgeIds =
             invalidatedBadgeIdsOf(userVotes[badgeCalls[r].userId], postData),
          ![r].pending = invalidatedBadgeIdsOf(userVotes[badgeCalls[r].userId], postData),
          ![r].pc = IF invalidatedBadgeIdsOf(userVotes[badgeCalls[r].userId], postData) = <<>>
                    THEN "recompute" ELSE "hDelUserVotes"]
  /\ UNCHANGED <<now, badgeFrame, votes, userVotes, cache, eloFinalized,
                 eloNoCountFlairApplied>>

\* invalidateBrokenBookVotes: await redis.hDel(userVotesKey, [badgeId])
BadgeDelUserVote(r) ==
  /\ BadgeAt(r, "hDelUserVotes")
  /\ userVotes' = [userVotes EXCEPT ![badgeCalls[r].userId] =
                     PurgePersonal(@, <<Head(badgeCalls[r].pending)>>)]
  /\ badgeCalls' = [badgeCalls EXCEPT ![r].pc = "hDelVotes"]
  /\ UNCHANGED <<now, badgeFrame, votes, cache, eloFinalized, eloNoCountFlairApplied>>

\* invalidateBrokenBookVotes: await redis.hDel(votesKey(postId, badgeId), [userId])
BadgeDelVote(r) ==
  /\ BadgeAt(r, "hDelVotes")
  /\ votes' = PurgeAggregate(votes, badgeCalls[r].userId,
                             <<Head(badgeCalls[r].pending)>>, TRUE)
  /\ badgeCalls' = [badgeCalls EXCEPT
                      ![r].pending = Tail(@),
                      ![r].pc = IF Tail(badgeCalls[r].pending) = <<>>
                                THEN "recompute" ELSE "hDelUserVotes"]
  /\ UNCHANGED <<now, badgeFrame, userVotes, cache, eloFinalized, eloNoCountFlairApplied>>

\* "Recompute all consensus": hGetAll and computeBadgeConsensus per placement
BadgeRecompute(r) ==
  /\ BadgeAt(r, "recompute")
  /\ badgeCalls' = [badgeCalls EXCEPT
                      ![r].consensus = [b \in PlacementIds(postData) |->
                                          computeBadgeConsensus(votes[b])],
                      ![r].pc = "clearConsensusCache"]
  /\ UNCHANGED <<now, badgeFrame, votes, userVotes, cache, eloFinalized,
                 eloNoCountFlairApplied>>

\* await clearConsensusCache(postId)
BadgeClearCache(r) ==
  /\ BadgeAt(r, "clearConsensusCache")
  /\ cache' = ClearedCache
  /\ badgeCalls' = [badgeCalls EXCEPT ![r].pc = "writeConsensusCache"]
  /\ UNCHANGED <<now, badgeFrame, votes, userVotes, eloFinalized, eloNoCountFlairApplied>>

\* await writeConsensusCache(postId, true, allConsensus), and the response
BadgeWriteCache(r) ==
  /\ BadgeAt(r, "writeConsensusCache")
  /\ cache' = writeConsensusCache(cache, TRUE, badgeCalls[r].consensus, now)
  /\ badgeCalls' = [badgeCalls EXCEPT ![r].pc = "done", ![r].wroteCacheAt = now]
  /\ UNCHANGED <<now, badgeFrame, votes, userVotes, eloFinalized, eloNoCountFlairApplied>>

\* onInit up to the consensus lookup: the post data, finalizeEloIfTimedOut
\* (no rating vote is stored, so it sets the markers or does nothing)
ReadArrive(r, userId) ==
  /\ BadgeAt(r, "idle")
  /\ postData.mode = "vote"
  /\ eloFinalized' = finalizeEloIfTimedOut(platform, postData, now, eloVotes, "none").eloFinalized
  /\ eloNoCountFlairApplied' =
       finalizeEloIfTimedOut(platform, postData, now, eloVotes, "none").eloNoCountFlairApplied
  /\ badgeCalls' = [badgeCalls EXCEPT ![r] =
                      [IdleBadgeCall EXCEPT !.pc = "readConsensusCache", !.op = "init",
                                            !.userId = userId,
                                            !.voteWindowOpen = isVoteWindowOpen(postData, now)]]
  /\ UNCHANGED <<now, badgeFrame, votes, userVotes, cache>>

\* const cachedConsensus = await readConsensusCache(postId, voteWindowOpen)
ReadCached(r) ==
  /\ BadgeAt(r, "readConsensusCache")
  /\ badgeCalls' =
       IF CacheHit(cache, badgeCalls[r].voteWindowOpen, now)
       THEN [badgeCalls EXCEPT
               ![r].consensus = cache[CacheSlot(badgeCalls[r].voteWindowOpen)].consensus,
               ![r].fromCache = TRUE, ![r].pc = "done"]
       ELSE [badgeCalls EXCEPT ![r].pc = "compute"]
  /\ UNCHANGED <<now, badgeFrame, votes, userVotes, cache, eloFinalized,
                 eloNoCountFlairApplied>>

\* the miss: hGetAll and computeBadgeConsensus per placement
ReadCompute(r) ==
  /\ BadgeAt(r, "compute")
  /\ badgeCalls' = [badgeCalls EXCEPT
                      ![r].consensus =
                         [b \in PlacementIds(postData) |->
                            InitConsensusEntry(votes[b], badgeCalls[r].voteWindowOpen)],
                      ![r].pc = "writeInitCache"]
  /\ UNCHANGED <<now, badgeFrame, votes, userVotes, cache, eloFinalized,
                 eloNoCountFlairApplied>>

\* await writeConsensusCache(postId, voteWindowOpen, consensus), and the response
ReadWriteCache(r) ==
  /\ BadgeAt(r, "writeInitCache")
  /\ cache' = writeConsensusCache(cache, badgeCalls[r].voteWindowOpen,
                                  badgeCalls[r].consensus, now)
  /\ badgeCalls' = [badgeCalls EXCEPT ![r].pc = "done", ![r].wroteCacheAt = now]
  /\ UNCHANGED <<now, badgeFrame, votes, userVotes, eloFinalized, eloNoCountFlairApplied>>

\* the voter's earlier votes: none, or Book on the first placement
InitBadgeRace ==
  /\ now = TickMs
  /\ postData = PostWith(2)
  /\ ballot = "classification"
  /\ \E prior \in {EmptyHash, HSet(EmptyHash, BadgeIds[1], "Book")} :
        /\ userVotes = [u \in Users |-> IF u = BadgeVoter THEN prior ELSE EmptyHash]
        /\ votes = [b \in PlacementIds(PostWith(2)) |->
                      IF b \in DOMAIN prior THEN HSet(EmptyHash, BadgeVoter, prior[b])
                      ELSE EmptyHash]
  /\ userElo = EmptyHash
  /\ eloVoters = EmptyHash
  /\ eloVotes = [set |-> FALSE, arr |-> <<>>]
  /\ eloFinalized = FALSE
  /\ eloNoCountFlairApplied = FALSE
  /\ cache = ClearedCache
  /\ postFlair = NoVotesFlair
  /\ userFlair = NoUserFlair
  /\ pmSent = 0
  /\ last = NoRequest
  /\ lastCounted = [b \in PlacementIds(PostWith(2)) |-> EmptyHash]
  /\ lastCountedElo = EmptyHash
  /\ iqmIn = <<>>
  /\ iqmOut = [done |-> FALSE, result |-> Rat(0, 1)]
  /\ mapped = NoMapping
  /\ cacheRead = NoCacheRead
  /\ NoCalls
  /\ moderators = {Moderator}
  /\ modCache = ViewedAtCreation
  /\ finalizers = <<>>
  /\ closedPosts = <<>>
  /\ flairHigh = 0

NextBadgeRace ==
  \/ BadgeTick
  \/ \E r \in Requests, b \in PlacementIds(postData), c \in {"Book", "Best"} :
        BadgeArrive(r, b, c)
  \/ \E r \in Requests : BadgeSetVotes(r)
  \/ \E r \in Requests : BadgeGetUserVotes(r)
  \/ \E r \in Requests : BadgeDelUserVote(r)
  \/ \E r \in Requests : BadgeDelVote(r)
  \/ \E r \in Requests : BadgeRecompute(r)
  \/ \E r \in Requests : BadgeClearCache(r)
  \/ \E r \in Requests : BadgeWriteCache(r)
  \/ \E r \in Requests : ReadArrive(r, BadgeVoter)
  \/ \E r \in Requests : ReadCached(r)
  \/ \E r \in Requests : ReadCompute(r)
  \/ \E r \in Requests : ReadWriteCache(r)

SpecBadgeRace == InitBadgeRace /\ [][NextBadgeRace]_vars

-----------------------------------------------------------------------------
(* Properties                                                              *)

VoteOps == {"vote-badge", "vote-elo"}

\* the step answers a vote request (the clock stands still while it does)
AnswersVote == last'.op \in VoteOps /\ now' = now

\* the badge ids in sequence order
Sequence == [i \in 1..Len(postData.placements) |-> SortByOrder(postData.placements)[i].id]

\* the voter's votes on the badges, read from the aggregate view
AggregateOf(u) ==
  [b \in {x \in DOMAIN votes : u \in DOMAIN votes[x]} |-> votes[b][u]]

\* the Book votes of a view are an unbroken prefix of the sequence
BookPrefix(view) ==
  \A i \in 1..Len(Sequence) :
     (Sequence[i] \in DOMAIN view /\ view[Sequence[i]] = "Book")
       => \A j \in 1..(i - 1) :
             Sequence[j] \in DOMAIN view /\ view[Sequence[j]] = "Book"

\* input clamped to [MIN_ELO, MAX_ELO]
Clamped(e) == IF e < MIN_ELO THEN MIN_ELO ELSE IF e > MAX_ELO THEN MAX_ELO ELSE e

SameTally(before, after) ==
  /\ after.totalVotes = before.totalVotes
  /\ after.voteCounts = before.voteCounts
  /\ after.classification = before.classification

\* C1: submitting the same classification vote a second time (same badge,
\* voter and classification, counted both times, window open) leaves the
\* badge's totalVotes, per-classification counts and consensus classification
\* as they were after the first submission.
C1_IdempotentOverwrite ==
  [][ (/\ last'.op = "vote-badge" /\ last'.status = 200 /\ now' = now
       /\ last'.again /\ last'.counted)
      => /\ SameTally(computeBadgeConsensus(votes[last'.badgeId]),
                      computeBadgeConsensus(votes'[last'.badgeId]))
         /\ last'.consensus[last'.badgeId] = last.consensus[last'.badgeId] ]_vars

\* a counted vote submitted twice on a badge whose quorum is reached
C1_Witness ==
  /\ last.op = "vote-badge" /\ last.status = 200 /\ last.again /\ last.counted
  /\ last.consensus[last.badgeId].totalVotes >= MIN_VOTES_FOR_BADGE_CONSENSUS
  /\ last.consensus[last.badgeId].classification # NullClassification

\* C2: the aggregate view of a badge holds, for each voter, at most the
\* voter's most recent counted vote, and totalVotes is the number of distinct
\* voters whose counted vote stands; the rating vote set holds exactly one
\* value per voter whose rating was counted, the most recent one, and
\* voteCount is the number of those voters.
C2_AtMostOnce ==
  /\ \A b \in DOMAIN votes :
        /\ DOMAIN votes[b] \cap Users = DOMAIN lastCounted[b]
        /\ \A u \in DOMAIN lastCounted[b] : votes[b][u] = lastCounted[b][u]
        /\ computeBadgeConsensus(votes[b]).totalVotes
             = Cardinality(DOMAIN lastCounted[b]) + Cardinality(DOMAIN votes[b] \cap Crowd)
        /\ \A c \in Classifications :
              computeBadgeConsensus(votes[b]).voteCounts[c]
                = Cardinality({u \in DOMAIN votes[b] : votes[b][u] = c})
  /\ eloVoters = lastCountedElo
  /\ Len(EloArr(eloVotes)) = Cardinality(DOMAIN lastCountedElo)
  /\ \A v \in DOMAIN lastCountedElo :
        Cardinality({i \in 1..Len(EloArr(eloVotes)) :
                       EloArr(eloVotes)[i] = lastCountedElo[v]})
          = Cardinality({u \in DOMAIN lastCountedElo :
                           lastCountedElo[u] = lastCountedElo[v]})
  /\ (last.op = "vote-elo" /\ last.status = 200)
        => last.voteCount = Cardinality(DOMAIN lastCountedElo)

\* a voter changes a counted rating while another voter's rating is counted
C2_Witness ==
  /\ last.op = "vote-elo" /\ last.status = 200 /\ last.counted /\ last.overwrote
  /\ Cardinality(DOMAIN lastCountedElo) = 2
  /\ last.voteCount = 2

\* C3: a classification or rating vote request of the post's creator is
\* answered 403 and writes nothing, and the creator's id is in no aggregate
\* view, in no personal view and not in the rating vote set.
C3_StateInv ==
  /\ \A b \in DOMAIN votes : postData.creatorId \notin DOMAIN votes[b]
  /\ userVotes[postData.creatorId] = EmptyHash
  /\ postData.creatorId \notin DOMAIN userElo
  /\ postData.creatorId \notin DOMAIN eloVoters
  /\ (last.op \in VoteOps /\ last.userId = postData.creatorId) => last.status = 403

C3_SelfVoteExclusion ==
  /\ []C3_StateInv
  /\ [][ (AnswersVote /\ last'.userId = postData.creatorId)
         => /\ last'.status = 403
            /\ UNCHANGED <<votes, userVotes, userElo, eloVoters, eloVotes, cache,
                           eloFinalized, eloNoCountFlairApplied>> ]_vars

\* the creator's vote was rejected while other votes are stored
C3_Witness ==
  /\ last.op \in VoteOps /\ last.userId = postData.creatorId /\ last.status = 403
  /\ \/ \E u \in Voters : userVotes[u] # EmptyHash
     \/ userElo # EmptyHash

\* C4: a vote request arriving when the voting window is closed is rejected
\* and changes nothing: personal view, aggregate view, rating vote set,
\* consensus cache and finalization markers stay as they were.
C4_WindowClosedRejection ==
  [][ (AnswersVote /\ now - postData.createdAtMs > MAX_POST_AGE_TO_VOTE_MS)
      => /\ last'.status = 403
         /\ UNCHANGED <<votes, userVotes, userElo, eloVoters, eloVotes, cache,
                        eloFinalized, eloNoCountFlairApplied>> ]_vars

\* a voter other than the creator was turned away after the window closed,
\* with votes in the store
C4_Witness ==
  /\ last.op \in VoteOps /\ last.status = 403 /\ ~last.windowOpen
  /\ last.userId # postData.creatorId
  /\ now - postData.createdAtMs > MAX_POST_AGE_TO_VOTE_MS
  /\ \/ \E u \in Voters : userVotes[u] # EmptyHash
     \/ userElo # EmptyHash

\* the user record fails one of the eligibility rules
FailsEligibility(user) ==
  \/ ~user.found
  \/ user.ageDays < MIN_VOTER_ACCOUNT_AGE_DAYS
  \/ user.karma < MIN_VOTER_TOTAL_KARMA
  \/ user.banned = "yes"

\* C5: an accepted vote of a voter who fails eligibility (account younger than
\* 7 days, karma below 10, banned, or no user record) is written to the
\* voter's personal view only: the aggregate view and the rating vote set are
\* unchanged, the consensus is that of the votes before the request, and the
\* response reports counted = false.
C5_IneligiblePersonalOnly ==
  [][ (AnswersVote /\ last'.status = 200 /\ FailsEligibility(last'.user))
      => /\ ~last'.counted
         /\ votes' = votes
         /\ eloVoters' = eloVoters
         /\ EloArr(eloVotes') = EloArr(eloVotes)
         /\ last'.op = "vote-badge" =>
              /\ \/ /\ last'.badgeId \in DOMAIN userVotes'[last'.userId]
                    /\ userVotes'[last'.userId][last'.badgeId] = last'.classification
                 \/ /\ last'.badgeId \in SeqRange(last'.invalidatedBadgeIds)
                    /\ last'.classification = "Book"
              /\ \A b \in DOMAIN votes :
                    last'.consensus[b] = computeBadgeConsensus(votes[b])
         /\ last'.op = "vote-elo" =>
              /\ userElo'[last'.userId] = Clamped(last'.elo)
              /\ last'.voteCount = Len(EloArr(eloVotes))
              /\ Len(EloArr(eloVotes)) > 0 =>
                   last'.consensusElo = MathRound(interquartileMean(EloArr(eloVotes))) ]_vars

\* a banned voter's classification vote is in the personal view and not in
\* the aggregate view
C5_Witness ==
  /\ last.op = "vote-badge" /\ last.status = 200 /\ ~last.counted
  /\ last.user.banned = "yes"
  /\ last.badgeId \in DOMAIN userVotes[last.userId]
  /\ last.userId \notin DOMAIN votes[last.badgeId]

\* the personal view of the voter of the answered request, with the vote written
PersonalWritten == HSet(userVotes[last'.userId], last'.badgeId, last'.classification)

\* the aggregate view with the vote of the answered request written
AggregateWritten ==
  [b \in DOMAIN votes |->
     IF b = last'.badgeId THEN HSet(votes[b], last'.userId, last'.classification)
     ELSE votes[b]]

\* the targets of the sequence whose Book vote in the view follows a target
\* without one
BrokenIn(seq, view) ==
  {seq[i] : i \in {k \in 1..Len(seq) :
      /\ seq[k] \in DOMAIN view /\ view[seq[k]] = "Book"
      /\ \E j \in 1..(k - 1) : seq[j] \notin DOMAIN view \/ view[seq[j]] # "Book"}}

BrokenBook(view) == BrokenIn(Sequence, view)

AcceptsBadgeVote == last'.op = "vote-badge" /\ last'.status = 200 /\ now' = now

\* the answered request changes the voter's vote on a target from Book to
\* another classification
ChangesFromBook ==
  /\ last'.badgeId \in DOMAIN userVotes[last'.userId]
  /\ userVotes[last'.userId][last'.badgeId] = "Book"
  /\ last'.classification # "Book"

\* C6: for every voter, in the personal view and in the aggregate view, the
\* targets carrying the voter's Book vote are an unbroken prefix of the
\* post's targets in sequence order, whatever the voter's eligibility was at
\* each request.
C6_BookChainPrefix ==
  \A u \in Voters : BookPrefix(userVotes[u]) /\ BookPrefix(AggregateOf(u))

PurgedFromBothViews(u, written, broken) ==
  /\ SeqRange(last'.invalidatedBadgeIds) = broken
  /\ \A b \in broken :
        /\ b \notin DOMAIN userVotes'[u]
        /\ ~(u \in DOMAIN votes'[b] /\ votes'[b][u] = "Book")
  /\ \A b \in DOMAIN written :
        written[b] # "Book"
          => b \in DOMAIN userVotes'[u] /\ userVotes'[u][b] = written[b]
  /\ \A b \in DOMAIN votes :
        (b # last'.badgeId /\ u \in DOMAIN votes[b] /\ votes[b][u] # "Book")
          => u \in DOMAIN votes'[b] /\ votes'[b][u] = votes[b][u]

\* C7 as stated: when a voter's vote on a target changes from Book to another
\* classification, every later Book vote that lost its run of Book is
\* deleted from the personal view and from the aggregate view and returned
\* in invalidatedBadgeIds, and the voter's non-Book votes stay.
C7_BothViewsPurged ==
  [][ (AcceptsBadgeVote /\ ChangesFromBook)
      => PurgedFromBothViews(last'.userId, PersonalWritten,
                             BrokenBook(PersonalWritten)) ]_vars

PurgedAsCounted(u, written, aggregate, broken) ==
  /\ SeqRange(last'.invalidatedBadgeIds) = broken
  /\ userVotes'[u] = HDel(written, broken)
  /\ last'.counted =>
       \A b \in DOMAIN votes :
          votes'[b] = IF b \in broken THEN HDel(aggregate[b], {u}) ELSE aggregate[b]
  /\ ~last'.counted => votes' = votes

\* C7: after a classification vote is written, every Book vote of the voter's
\* personal view that follows a target without the voter's Book vote is
\* deleted from the personal view and its target id is returned in
\* invalidatedBadgeIds; the voter's other personal votes stay. When the
\* request is counted the voter's entry on each of those targets is deleted
\* from the aggregate view as well and the rest of the aggregate view is as
\* written; when it is not counted the aggregate view is left as it was.
C7_BookChainInvalidation ==
  [][ AcceptsBadgeVote
      => PurgedAsCounted(last'.userId, PersonalWritten, AggregateWritten,
                         BrokenBook(PersonalWritten)) ]_vars

\* votes [Book, Book, Best], counted, and the first becomes Best: the second
\* is gone from both views and the third stays
C7_Witness ==
  /\ last.op = "vote-badge" /\ last.status = 200 /\ last.counted /\ last.overwrote
  /\ last.badgeId = "b1" /\ last.classification = "Best"
  /\ last.invalidatedBadgeIds = <<"b2">>
  /\ "b2" \notin DOMAIN userVotes[last.userId]
  /\ last.userId \notin DOMAIN votes["b2"]
  /\ "b3" \in DOMAIN userVotes[last.userId] /\ userVotes[last.userId]["b3"] = "Best"
  /\ last.userId \in DOMAIN votes["b3"] /\ votes["b3"][last.userId] = "Best"

ConsensusOps == {"vote-badge", "init"}

WorkedExample == <<1, 1, 1, 1, 1, 1, 1, 1, 10>>

\* C9 as stated: for [1,1,1,1,1,1,1,1,10] the core slice is four 1s (4), the
\* boundary elements are 1 and 10 at weight 0.75 (8.25), the weighted sum is
\* 12.25 over total weight 4.5, a result of about 2.722.
C9_WorkedExampleAsStated ==
  (iqmOut.done /\ iqmIn = WorkedExample)
    => /\ IqmK(Len(iqmIn)) = 2 /\ IqmG4(Len(iqmIn)) = 1
       /\ CoreSlice(SortAsc(iqmIn)) = <<1, 1, 1, 1>>
       /\ BoundarySum4(SortAsc(iqmIn)) = 33
       /\ WeightedSum4(SortAsc(iqmIn)) = 49
       /\ TotalWeight4(Len(iqmIn)) = 18
       /\ RGt(iqmOut.result, 2721, 1000) /\ RLt(iqmOut.result, 2723, 1000)

\* C9: for [1,1,1,1,1,1,1,1,10] (n=9, k=2, g=0.25) interquartileMean sums a
\* core slice of three 1s (3), adds the boundary elements sorted[2] = 1 and
\* sorted[6] = 1 at weight 0.75 each (1.5), giving weighted sum 4.5 over
\* total weight 4.5: the result is exactly 1 and the 10 is trimmed away.
C9_WorkedExample ==
  (iqmOut.done /\ iqmIn = WorkedExample)
    => /\ IqmK(Len(iqmIn)) = 2 /\ IqmG4(Len(iqmIn)) = 1
       /\ CoreSlice(SortAsc(iqmIn)) = <<1, 1, 1>>
       /\ BoundaryWeight4(Len(iqmIn)) = 3
       /\ BoundarySum4(SortAsc(iqmIn)) = 6
       /\ WeightedSum4(SortAsc(iqmIn)) = 18
       /\ TotalWeight4(Len(iqmIn)) = 18
       /\ iqmOut.result.num = iqmOut.result.den

\* interquartileMean has been applied to the worked example
C9_Witness == iqmOut.done /\ iqmIn = WorkedExample

\* C10: a rating vote is never rejected for its value: it is rejected only
\* for the creator, after the window closed, or when the user lookup threw;
\* the value stored in the
\* personal view and, when counted, in the rating vote set is
\* max(MIN_ELO, min(MAX_ELO, input)), and every stored rating is in
\* [100, 3000].
C10_RatingClamp ==
  /\ \A u \in DOMAIN userElo : userElo[u] >= 100 /\ userElo[u] <= 3000
  /\ \A u \in DOMAIN eloVoters : eloVoters[u] >= 100 /\ eloVoters[u] <= 3000
  /\ \A i \in 1..Len(EloArr(eloVotes)) :
        EloArr(eloVotes)[i] >= 100 /\ EloArr(eloVotes)[i] <= 3000
  /\ last.op = "vote-elo" =>
        /\ last.status \in {200, 403, 500}
        /\ last.status = 403 => (last.userId = postData.creatorId \/ ~last.windowOpen)
        /\ last.status = 500 => last.user.lookup = "throws"
        /\ last.status = 200 =>
             /\ userElo[last.userId] = Clamped(last.elo)
             /\ last.counted =>
                  /\ eloVoters[last.userId] = Clamped(last.elo)
                  /\ \E i \in 1..Len(EloArr(eloVotes)) :
                        EloArr(eloVotes)[i] = Clamped(last.elo)

\* an input above the range and an input below it are both stored clamped
C10_Witness ==
  /\ last.op = "vote-elo" /\ last.status = 200 /\ last.counted
  /\ last.elo > 3000
  /\ eloVoters[last.userId] = 3000
  /\ \E u \in DOMAIN userElo : userElo[u] = 100

\* C11: once both markers of a post are set they stay set, and no later
\* step sets the post flair, sets the user flair or sends a notification.
C11_FinalizationIdempotent ==
  [][(eloFinalized /\ eloNoCountFlairApplied)
       => /\ eloFinalized' /\ eloNoCountFlairApplied'
          /\ UNCHANGED <<postFlair, userFlair, pmSent>>]_vars

\* a read that found both markers set and nothing to do, although the final
\* post flair was never applied: the finalization before it lost setPostFlair
C11_Witness ==
  /\ eloFinalized /\ eloNoCountFlairApplied
  /\ last.op = "init" /\ last.status = 200 /\ last.logged = "none"
  /\ Len(EloArr(eloVotes)) >= MIN_VOTES_FOR_POST_FLAIR
  /\ postFlair.hasCount

\* the window of the vote-mode post has closed and finalization has not run
AwaitsFinalization ==
  /\ postData.mode = "vote" /\ ~isVoteWindowOpen(postData, now)
  /\ ~(eloFinalized /\ eloNoCountFlairApplied)

\* C13 as stated: while finalization is awaited, every request of any kind,
\* read or vote, leaves both markers set (a step that keeps the clock is a
\* request).
C13_AnyRequestFinalizes ==
  [][(AwaitsFinalization /\ now' = now /\ last'.op \in VoteOps \cup {"init"})
       => (eloFinalized' /\ eloNoCountFlairApplied')]_vars

\* C13: while finalization is awaited, a read leaves both markers set; a
\* classification or rating vote is rejected with 403 and leaves the markers
\* as they were.
C13_OpportunisticFinalization ==
  [][(AwaitsFinalization /\ now' = now)
       => /\ last'.op = "init" => (eloFinalized' /\ eloNoCountFlairApplied')
          /\ last'.op \in VoteOps
               => /\ last'.status = 403
                  /\ UNCHANGED <<eloFinalized, eloNoCountFlairApplied>>]_vars

\* a read set the markers after a vote had been turned away at the closed window
C13_Witness ==
  /\ last.op = "init" /\ last.ranFinalization /\ ~last.windowOpen
  /\ eloFinalized /\ eloNoCountFlairApplied
  /\ Len(EloArr(eloVotes)) >= MIN_VOTES_TO_SHOW_ELO_IN_POST_FLAIR
  /\ pmSent = 1

\* C14: the read that follows a counted classification vote returns, for
\* every target, the consensus of the aggregate votes as they are after the
\* vote, and the vote is among them.
C14_ReadAfterWrite ==
  [][(/\ last.op = "vote-badge" /\ last.status = 200 /\ last.counted
      /\ last'.op = "init")
       => /\ last.userId \in DOMAIN votes[last.badgeId]
          /\ votes[last.badgeId][last.userId] = last.classification
          /\ last'.consensus =
               [b \in PlacementIds(postData) |->
                  InitConsensusEntry(votes[b], last'.windowOpen)]]_vars

\* the read after the vote that completed the quorum, served from the cache
C14_Witness ==
  /\ last.op = "init" /\ last.afterCountedVote /\ last.fromCache
  /\ last.consensus[BadgeIds[1]].totalVotes = MIN_VOTES_FOR_BADGE_CONSENSUS

\* the voter of the request answered last is not the creator, was found, meets
\* the age and karma thresholds, and the banned-users lookup threw
BanLookupFailed ==
  /\ last.op \in VoteOps /\ last.userId # postData.creatorId
  /\ last.user.lookup = "ok" /\ last.user.found
  /\ last.user.ageDays >= MIN_VOTER_ACCOUNT_AGE_DAYS
  /\ last.user.karma >= MIN_VOTER_TOTAL_KARMA
  /\ last.user.banned = "throws"

\* C15: a vote whose banned-users lookup threw, from a voter who is not the
\* creator and meets the age and karma thresholds, succeeds, is counted and
\* is in the aggregate view.
C15_BanLookupBestEffort ==
  BanLookupFailed
    => /\ last.status = 200 /\ last.counted
       /\ isEligibleVoter(postData, last.userId, last.user)
       /\ last.op = "vote-badge"
            => /\ last.userId \in DOMAIN votes[last.badgeId]
               /\ votes[last.badgeId][last.userId] = last.classification
       /\ last.op = "vote-elo"
            => /\ last.userId \in DOMAIN eloVoters
               /\ eloVoters[last.userId] = ClampElo(last.elo)

\* such a vote completed the quorum of its target
C15_Witness ==
  /\ BanLookupFailed /\ last.op = "vote-badge" /\ last.counted
  /\ last.consensus[last.badgeId].totalVotes = MIN_VOTES_FOR_BADGE_CONSENSUS

\* the user lookup of the vote request answered last threw or found no user
IdentityLookupFailed ==
  /\ last.op \in VoteOps /\ last.userId # postData.creatorId
  /\ last.user \in UserRecords
  /\ last.user.lookup = "throws" \/ ~last.user.found

\* C16: a vote whose user lookup threw or returned no user is answered
\* without an error and treated as the permissive default: it is counted.
C16_IdentityLookupBestEffort ==
  IdentityLookupFailed => (last.status = 200 /\ last.counted)

\* the consensus rating and vote count a response carries are those of arr
AnswersRating(response, arr) ==
  /\ response.voteCount = Len(arr)
  /\ Len(arr) > 0 => response.consensusElo = MathRound(interquartileMean(arr))

\* C17: a request during which a flair or notification call failed is
\* answered without an error; a rating vote has its rating in the personal
\* view and, when counted, in the rating vote set, and answers with the
\* consensus rating and vote count of that set; a read that ran finalization
\* leaves the rating votes as they were and answers from them.
C17_SideEffectFailures ==
  [][(last'.logged # "none")
       => /\ last'.status = 200
          /\ last'.op = "vote-elo"
               => /\ userElo'[last'.userId] = ClampElo(last'.elo)
                  /\ last'.counted => eloVoters'[last'.userId] = ClampElo(last'.elo)
                  /\ eloVotes' = [set |-> TRUE, arr |-> HashValues(eloVoters')]
                  /\ AnswersRating(last', HashValues(eloVoters'))
          /\ last'.op = "init"
               => /\ UNCHANGED <<userElo, eloVoters, eloVotes>>
                  /\ AnswersRating(last', EloArr(eloVotes))]_vars

\* the second counted rating vote, whose post flair update failed
C17_Witness ==
  /\ last.op = "vote-elo" /\ last.logged = "setPostFlair" /\ last.status = 200
  /\ last.counted /\ last.voteCount = 2
  /\ postFlair = NoVotesFlair

\* C18: after a completed edit no vote remains, in the aggregate view or in
\* any personal view, for a target the edit deleted, and if the edit changed
\* a sequence position no view holds a Book vote that is invalid under the
\* new order.
C18_EditPurgesVotes ==
  (last.op = "update-post" /\ last.status = 200)
    => /\ \A b \in last.deletedIds :
            /\ b \in DOMAIN votes => votes[b] = EmptyHash
            /\ \A u \in Users : b \notin DOMAIN userVotes[u]
       /\ last.orderChanged
            => \A u \in Users : /\ BrokenBook(userVotes[u]) = {}
                                /\ BrokenBook(AggregateOf(u)) = {}

\* C20 as stated: an update-post request of a user who is not among the
\* community's moderators is answered 403 and leaves the post data, every
\* vote view and the consensus cache as they were.
C20_ModeratorOnlyEdit ==
  [][(/\ last'.op = "update-post" /\ last'.userId \notin moderators
      /\ UNCHANGED <<now, moderators>>)
       => /\ last'.status = 403
          /\ UNCHANGED <<postData, votes, userVotes, userElo, eloVoters, eloVotes,
                         cache>>]_vars

\* no request is inside finalizeEloIfTimedOut
Quiescent == \A r \in Requests : At(r, "idle")

\* the post flair a single finalization leaves on post q
FinalPostFlair(q) ==
  IF Len(closedPosts[q].eloArr) < MIN_VOTES_FOR_POST_FLAIR THEN NoVotesFlair
  ELSE PostFlairOf(MathRound(interquartileMean(closedPosts[q].eloArr)),
         Len(closedPosts[q].eloArr),
         [showVisibleElo |-> TRUE,
          colorize |-> Len(closedPosts[q].eloArr) >= MIN_VOTES_TO_SHOW_ELO_IN_POST_FLAIR,
          tryUserFlair |-> FALSE, includeVoteCount |-> FALSE])

\* C12: in every interleaving of the requests that find a post's window
\* closed, the owner is notified at most once per post, and once the
\* requests have returned a finalized post carries the post flair of a
\* single finalization.
C12_FinalizationAsIfOnce ==
  \A q \in DOMAIN closedPosts :
     /\ closedPosts[q].pmSent <= 1
     /\ (Quiescent /\ closedPosts[q].eloFinalized)
          => closedPosts[q].postFlair = FinalPostFlair(q)

\* C19: in every interleaving of finalizations, a write of the creator's
\* user flair replaces no flair or a strictly lower Elo, and the flair never
\* shows less than the highest Elo written before.
C19_MonotonicRatchet ==
  [][/\ userFlair' # userFlair
          => (userFlair.text = "none" \/ userFlair'.elo > userFlair.elo)
     /\ userFlair'.text = "elo" => userFlair'.elo >= flairHigh']_vars

Min2(a, b) == IF a < b THEN a ELSE b
Max2(a, b) == IF a > b THEN a ELSE b

\* four times the length of the overlap of [i, i+1] with [n/4, 3n/4], for
\* the zero-based index i of a list of n values
OverlapWeight4(i, n) == Max2(0, Min2(4 * (i + 1), 3 * n) - Max2(4 * i, n))

\* the weighted mean of the ascending-sorted values under the overlap
\* weights, divided by n/2
ReferenceIqm(values) ==
  Rat(SumSeq([j \in 1..Len(values) |->
               OverlapWeight4(j - 1, Len(values)) * SortAsc(values)[j]]),
      2 * Len(values))

RatEq(r, q) == r.num * q.den = q.num * r.den

\* C22: for every non-empty list, interquartileMean returns the weighted
\* mean of the sorted values in which the value at index i weighs the overlap
\* of [i, i+1] with [n/4, 3n/4], divided by n/2; for one value, that value.
C22_IqmReference ==
  (iqmOut.done /\ Len(iqmIn) >= 1)
    => /\ RatEq(iqmOut.result, ReferenceIqm(iqmIn))
       /\ Len(iqmIn) = 1 => RatEq(iqmOut.result, Rat(iqmIn[1], 1))

\* seven unsorted values, boundary weight 1/4, a result that is no integer
C22_Witness ==
  /\ iqmOut.done /\ Len(iqmIn) = 7
  /\ iqmIn[1] > iqmIn[2]
  /\ iqmOut.result.num % iqmOut.result.den # 0


\* the standard classifications, best first
StandardOrder ==
  <<"Brilliant", "Great", "Best", "Excellent", "Good", "Inaccuracy", "Mistake", "Blunder">>

RankOf(c) == CHOOSE i \in 1..Len(StandardOrder) : StandardOrder[i] = c

\* |iqm - CLASSIFICATION_WEIGHT[c]| in units of 1 / (WeightScale * iqm.den)
DistanceTo(iqm, c) ==
  LET d == WeightScale * iqm.num - CLASSIFICATION_WEIGHT[c] * iqm.den
  IN IF d < 0 THEN -d ELSE d

\* the standard classification nearest to iqm, the better one on a tie
NearestStandard(iqm) ==
  StandardOrder[CHOOSE i \in 1..Len(StandardOrder) :
     \A j \in 1..Len(StandardOrder) :
        \/ DistanceTo(iqm, StandardOrder[i]) < DistanceTo(iqm, StandardOrder[j])
        \/ DistanceTo(iqm, StandardOrder[i]) = DistanceTo(iqm, StandardOrder[j]) /\ i <= j]

BookShareHalf == mapped.totalVotes > 0 /\ 2 * mapped.voteCounts["Book"] >= mapped.totalVotes
MissShareHalf == mapped.totalVotes > 0 /\ 2 * mapped.voteCounts["Miss"] >= mapped.totalVotes
InBookBand == RGt(mapped.iqm, -1, 1) /\ RLt(mapped.iqm, 1, 1)
InMissBand == RGt(mapped.iqm, -2, 1) /\ RLt(mapped.iqm, 0, 1)

\* C23: iqmToClassification answers Book exactly when the Book share is at
\* least one half and the mean lies strictly inside (-1, 1); failing that it
\* answers Miss exactly when the Miss share is at least one half and the mean
\* lies strictly inside (-2, 0); when both rules apply Book wins, and when
\* neither applies the answer is the one of the threshold mapping, which is
\* never Book or Miss.
C23_SpecialCases ==
  mapped.done
    => /\ (mapped.result = "Book") <=> (BookShareHalf /\ InBookBand)
       /\ (mapped.result = "Miss")
            <=> (~(BookShareHalf /\ InBookBand) /\ MissShareHalf /\ InMissBand)
       /\ (~(BookShareHalf /\ InBookBand) /\ ~(MissShareHalf /\ InMissBand))
            => mapped.result = StandardMapping(mapped.iqm)
       /\ StandardMapping(mapped.iqm) \notin {"Book", "Miss"}

\* both rules apply and Book is answered
C23_Witness ==
  /\ mapped.done /\ mapped.result = "Book"
  /\ MissShareHalf /\ InMissBand /\ BookShareHalf

\* C24: when no special rule fires the answer is the standard classification
\* whose weight is nearest to the mean, the better one when two weights are
\* equally near; and a mean at least as high as another never maps to a worse
\* classification.
C24_NearestStandard ==
  (mapped.done /\ mapped.result \notin {"Book", "Miss"})
    => /\ mapped.result = NearestStandard(mapped.iqm)
       /\ \A lower \in IqmGrid :
             RGe(mapped.iqm, lower.num, lower.den)
               => RankOf(mapped.result) <= RankOf(StandardMapping(lower))

\* a mean exactly between the weights of Best and Excellent maps to Best
C24_Witness ==
  /\ mapped.done /\ mapped.iqm.num * 4 = 3 * mapped.iqm.den
  /\ mapped.result = "Best"
  /\ DistanceTo(mapped.iqm, "Best") = DistanceTo(mapped.iqm, "Excellent")

\* the consensus of every placement, computed from the aggregate votes
ConsensusOfStore(aggregate) ==
  [b \in PlacementIds(postData) |-> computeBadgeConsensus(aggregate[b])]

\* the entry writeConsensusCache leaves at time t
FreshEntry(consensus, t) ==
  [set |-> TRUE, consensus |-> consensus, expiresAt |-> t + CONSENSUS_CACHE_TTL_MS]

AsWritten == cacheRead.rawConsensus = "json" /\ cacheRead.rawMeta.kind = "json"

\* an entry is served exactly when payload and metadata are as written and
\* now < expiresAt, and the TTL is less than ten seconds
C27_SingleDigitTtl ==
  cacheRead.done
    => /\ cacheRead.served <=> (AsWritten /\ cacheRead.readAt < cacheRead.rawMeta.expiresAt)
       /\ AsWritten => cacheRead.rawMeta.expiresAt - cacheRead.writtenAt < 10000

\* C27: an entry carries the expiry time writtenAt + 10000 ms and is served
\* exactly while now < expiresAt, so it is never served 10 seconds or more
\* after it was written; a missing or unparseable payload, and missing,
\* unparseable or non-numeric metadata, make the read a miss, while a payload
\* that parses is returned whatever its shape.
C27_CacheTtl ==
  cacheRead.done
    => /\ cacheRead.served
            <=> /\ cacheRead.rawConsensus \in {"json", "other-json"}
                /\ cacheRead.rawMeta.kind = "json"
                /\ cacheRead.readAt < cacheRead.rawMeta.expiresAt
       /\ cacheRead.rawMeta.kind = "json"
            => cacheRead.rawMeta.expiresAt = cacheRead.writtenAt + 10000
       /\ cacheRead.served => cacheRead.readAt - cacheRead.writtenAt < 10000

\* an untouched entry read one millisecond before it expires is served
C27_Witness ==
  /\ cacheRead.done /\ cacheRead.served /\ AsWritten
  /\ cacheRead.readAt = cacheRead.rawMeta.expiresAt - 1

\* C28: every post flair written, by a rating vote in the open window or by
\* finalization, shows the numeric consensus exactly when the rating vote
\* count has reached MIN_VOTES_TO_SHOW_ELO_IN_POST_FLAIR, and is masked below.
C28_MaskedBelowThreshold ==
  [][postFlair' # postFlair
       => (postFlair'.visible
             <=> Len(EloArr(eloVotes')) >= MIN_VOTES_TO_SHOW_ELO_IN_POST_FLAIR)]_vars

\* the step answers a request that read the post data
ReadsPostData == last'.op \in VoteOps \cup {"init"} /\ now' = now /\ last' # last

\* the window of every post is open exactly while now minus the post's
\* creation time is at most the maximum duration, and every post reaches a
\* time from which its window stays closed
C29_WindowOfEveryPost ==
  /\ [][ReadsPostData
          => (last'.windowOpen <=> now - PostCreatedAtMs <= MAX_POST_AGE_TO_VOTE_MS)]_vars
  /\ <>[](~isVoteWindowOpen(postData, now))

\* C29: a request finds the window open exactly when the post data it read
\* carries no creation time or now - createdAtMs <= MAX_POST_AGE_TO_VOTE_MS
\* (open at the boundary, closed after it); a legacy post gets its creation
\* time when the backfill succeeds; a vote that finds the window closed is
\* rejected with 403; and once the creation time is stored, a time comes from
\* which the window stays closed.
C29_VotingWindow ==
  /\ [][ReadsPostData
          => /\ last'.windowOpen
                  <=> \/ LegacyPost(postData')
                      \/ now - postData'.createdAtMs <= MAX_POST_AGE_TO_VOTE_MS
             /\ postData'.createdAtMs \in {postData.createdAtMs, PostCreatedAtMs}
             /\ (last'.op \in VoteOps /\ ~last'.windowOpen) => last'.status = 403
             /\ (last'.op \in VoteOps /\ last'.windowOpen
                   /\ last'.userId # postData.creatorId) => last'.status = 200]_vars
  /\ [](~LegacyPost(postData) => <>[](~isVoteWindowOpen(postData, now)))

\* a vote was counted while the window was open, and a later one was turned
\* away once it had closed
C29_Witness ==
  /\ last.op \in VoteOps /\ last.status = 403 /\ ~last.windowOpen
  /\ last.userId # postData.creatorId
  /\ \/ \E u \in DOMAIN lastCountedElo : TRUE
     \/ \E b \in DOMAIN lastCounted : lastCounted[b] # EmptyHash

\* no rating vote request is in flight
EloQuiescent == \A r \in Requests : eloCalls[r].pc \in {"idle", "done"}

\* C30: once concurrent rating votes of different eligible voters have all
\* completed, the stored rating array holds exactly one value for every
\* voter of the per-voter rating map: no counted vote is lost.
C30_NoRatingVoteLost ==
  EloQuiescent => SortAsc(EloArr(eloVotes)) = SortAsc(HashValues(eloVoters))

\* both requests were classification votes on the same target and have completed
TwoVotesCompleted ==
  /\ \A r \in Requests : badgeCalls[r].pc = "done" /\ badgeCalls[r].op = "vote-badge"
  /\ badgeCalls["r1"].badgeId = badgeCalls["r2"].badgeId
  /\ badgeCalls["r1"].userId = badgeCalls["r2"].userId

\* the aggregate entry of the two requests' voter on their target is one of
\* the two classifications submitted
HoldsOneOfTheTwo ==
  /\ badgeCalls["r1"].userId \in DOMAIN votes[badgeCalls["r1"].badgeId]
  /\ votes[badgeCalls["r1"].badgeId][badgeCalls["r1"].userId]
       \in {badgeCalls[r].classification : r \in Requests}

\* one of the two requests invalidated its own target as a broken Book vote
TargetInvalidated ==
  \E r \in Requests : badgeCalls[r].badgeId \in SeqRange(badgeCalls[r].invalidatedBadgeIds)

\* once two concurrent classification votes of one voter on one target have
\* completed, the aggregate holds exactly one entry for the pair, with the
\* classification of one of the two requests, counted once
C21_ExactlyOneEntry ==
  TwoVotesCompleted
    => /\ HoldsOneOfTheTwo
       /\ computeBadgeConsensus(votes[badgeCalls["r1"].badgeId]).totalVotes = 1

\* C21: once two concurrent classification votes of one voter on one target
\* have completed, the aggregate holds at most one entry for the pair and the
\* voter is counted at most once; the entry is there, with the classification
\* of one of the two requests, unless one of the requests invalidated the
\* target as a Book vote that breaks the chain.
C21_AtMostOneEntry ==
  TwoVotesCompleted
    => /\ computeBadgeConsensus(votes[badgeCalls["r1"].badgeId]).totalVotes <= 1
       /\ badgeCalls["r1"].userId \in DOMAIN votes[badgeCalls["r1"].badgeId]
            => HoldsOneOfTheTwo
       /\ ~TargetInvalidated => HoldsOneOfTheTwo

\* two votes with different classifications on the second placement, both
\* kept by the chain rule, interleaved so that the vote written last to the
\* personal view is not the one written last to the aggregate view
C21_Witness ==
  /\ TwoVotesCompleted /\ ~TargetInvalidated /\ HoldsOneOfTheTwo
  /\ badgeCalls["r1"].badgeId = BadgeIds[2]
  /\ badgeCalls["r1"].classification # badgeCalls["r2"].classification
  /\ BadgeIds[2] \in DOMAIN userVotes[BadgeVoter]
  /\ userVotes[BadgeVoter][BadgeIds[2]] # votes[BadgeIds[2]][BadgeVoter]

\* no classification vote or read is in flight
BadgeQuiescent == \A r \in Requests : badgeCalls[r].pc \in {"idle", "done"}

\* the time of the last write of a cache entry
LastCacheWriteAt ==
  IF badgeCalls["r1"].wroteCacheAt > badgeCalls["r2"].wroteCacheAt
  THEN badgeCalls["r1"].wroteCacheAt ELSE badgeCalls["r2"].wroteCacheAt

\* what getInitState would answer now: the cached consensus on a hit, the
\* consensus computed from the aggregate votes on a miss
NextInitConsensus ==
  IF CacheHit(cache, isVoteWindowOpen(postData, now), now)
  THEN cache[CacheSlot(isVoteWindowOpen(postData, now))].consensus
  ELSE [b \in PlacementIds(postData) |->
          InitConsensusEntry(votes[b], isVoteWindowOpen(postData, now))]

\* the consensus of the aggregate votes as they are
CurrentConsensus ==
  [b \in PlacementIds(postData) |->
     InitConsensusEntry(votes[b], isVoteWindowOpen(postData, now))]

\* C26: whatever the interleaving of concurrent votes and reads, once all of
\* them have completed and the TTL has passed since the last cache write, the
\* next getInitState answers the consensus computed from the aggregate votes
\* as they are; no entry, stale or not, is served beyond its TTL.
C26_CacheConvergence ==
  (BadgeQuiescent /\ now - LastCacheWriteAt >= CONSENSUS_CACHE_TTL_MS)
    => /\ NextInitConsensus = CurrentConsensus
       /\ \A slot \in {"open", "closed"} :
             cache[slot].set => cache[slot].expiresAt <= now

\* a stale overwrite: all requests have completed, the open-window entry
\* differs from the consensus of the votes, and its TTL has just passed with
\* the window still open
C26_Witness ==
  /\ BadgeQuiescent /\ now - LastCacheWriteAt >= CONSENSUS_CACHE_TTL_MS
  /\ isVoteWindowOpen(postData, now)
  /\ cache.open.set /\ cache.open.consensus # CurrentConsensus
  /\ \E r \in Requests : badgeCalls[r].op = "vote-badge"

-----------------------------------------------------------------------------
(* computeBadgeConsensus on near-unanimous votes, main.tsx 3162-3192         *)

MaxTallyVotes == 12         \* most votes of one classification on the target

\* n votes of classification x and d of classification y, as the values of
\* votes:<postId>:<badgeId>
TallyEntries(x, n, y, d) == [i \in 1..(n + d) |-> IF i <= n THEN x ELSE y]

\* the aggregate hash read by computeBadgeConsensus
ReadVotes(x, n, y, d) ==
  /\ ~tally.done /\ tally.entries = <<>>
  /\ n + d > 0
  /\ tally' = [tally EXCEPT !.entries = TallyEntries(x, n, y, d)]
  /\ UNCHANGED <<now, postData, storeVars, postFlair, userFlair, pmSent, last,
                 lastCounted, lastCountedElo, iqmIn, iqmOut, ballot, modVars,
                 raceVars, mapped, cacheRead, eloCalls, badgeCalls, voters,
                 elo_votes, triggers, render>>

Tally ==
  /\ ~tally.done /\ tally.entries # <<>>
  /\ tally' = [tally EXCEPT !.done = TRUE,
                             !.result = ConsensusOfEntries(tally.entries)]
  /\ UNCHANGED <<now, postData, storeVars, postFlair, userFlair, pmSent, last,
                 lastCounted, lastCountedElo, iqmIn, iqmOut, ballot, modVars,
                 raceVars, mapped, cacheRead, eloCalls, badgeCalls, voters,
                 elo_votes, triggers, render>>

NextTally ==
  \/ \E x \in PICKER_CLASSIFICATIONS, n \in 0..MaxTallyVotes,
        y \in PICKER_CLASSIFICATIONS, d \in 0..1 : ReadVotes(x, n, y, d)
  \/ Tally

SpecTally == Init /\ [][NextTally]_vars

Unanimous(entries, x) == \A i \in 1..Len(entries) : entries[i] = x

\* C35: at least MIN_VOTES_FOR_BADGE_CONSENSUS votes on a target, all of the
\* same picker classification X, give the consensus classification X.
C35_Unanimity ==
  \A x \in PICKER_CLASSIFICATIONS :
     (/\ tally.done
      /\ Len(tally.entries) >= MIN_VOTES_FOR_BADGE_CONSENSUS
      /\ Unanimous(tally.entries, x))
     => tally.result.classification = x

C35_Witness ==
  /\ tally.done
  /\ Len(tally.entries) = MIN_VOTES_FOR_BADGE_CONSENSUS
  /\ Unanimous(tally.entries, "Miss")
  /\ tally.result.classification = "Miss"

-----------------------------------------------------------------------------
(* Bounds of interquartileMean and its outliers, shared/api.ts 249-269       *)

SeqMin(s) == SortAsc(s)[1]
SeqMax(s) == SortAsc(s)[Len(s)]

\* how far an outlier is moved further out
OutlierShifts == {1, 1000}

ReplaceAt(s, i, v) == [s EXCEPT ![i] = v]

\* the values as ratings stored by onVoteElo: clamped to [MIN_ELO, MAX_ELO]
AsRatings(values) == [i \in 1..Len(values) |-> ClampElo(300 * values[i])]

\* Math.round(interquartileMean(eloArr))
ConsensusRating(eloArr) == MathRound(interquartileMean(eloArr))

\* C36: for a non-empty input min <= interquartileMean <= max, so the
\* consensus rating of at least one counted (clamped) rating lies in
\* [MIN_ELO, MAX_ELO]; for four values or more the result is unchanged when
\* one largest value is replaced by a larger one or one smallest value by a
\* smaller one.
C36_IqmBounds ==
  (iqmOut.done /\ Len(iqmIn) >= 1) =>
    LET sorted == SortAsc(iqmIn)
        lo == sorted[1]
        hi == sorted[Len(sorted)]
        rating == ConsensusRating(AsRatings(iqmIn))
    IN /\ RGe(iqmOut.result, lo, 1)
       /\ ~RGt(iqmOut.result, hi, 1)
       /\ rating >= MIN_ELO /\ rating <= MAX_ELO
       /\ Len(iqmIn) >= 4 =>
            \A i \in 1..Len(iqmIn), d \in OutlierShifts :
               /\ iqmIn[i] = hi =>
                    RatEq(interquartileMean(ReplaceAt(iqmIn, i, hi + d)),
                          iqmOut.result)
               /\ iqmIn[i] = lo =>
                    RatEq(interquartileMean(ReplaceAt(iqmIn, i, lo - d)),
                          iqmOut.result)

\* five values, the largest first, the result strictly between the extremes
C36_Witness ==
  /\ iqmOut.done /\ Len(iqmIn) = 5
  /\ iqmIn[1] = SeqMax(iqmIn) /\ iqmIn[1] > iqmIn[2]
  /\ RGt(iqmOut.result, SeqMin(iqmIn), 1)
  /\ RLt(iqmOut.result, SeqMax(iqmIn), 1)
  /\ RatEq(interquartileMean(ReplaceAt(iqmIn, 1, iqmIn[1] + 1000)), iqmOut.result)

-----------------------------------------------------------------------------
(* A Book vote submitted out of sequence, main.tsx 2869-2886, 2912-2953      *)

\* the position of a target in sequence order
PositionOf(badgeId) == CHOOSE i \in 1..Len(Sequence) : Sequence[i] = badgeId

\* some target before position i carries no Book vote in the view
EarlierNotAllBook(view, i) ==
  \E j \in 1..(i - 1) : Sequence[j] \notin DOMAIN view \/ view[Sequence[j]] # "Book"

AcceptsBookVote == AcceptsBadgeVote /\ last'.classification = "Book"

\* C34: a counted Book vote on a target that is not first in sequence and
\* whose earlier targets do not all carry the voter's Book vote is written
\* and removed again: afterwards the voter has no vote on the target in
\* either view and the target id is in invalidatedBadgeIds; a Book vote on
\* the first target in sequence is never invalidated.
C34_InvalidBookSubmission ==
  [][ AcceptsBookVote =>
        LET u == last'.userId
            t == last'.badgeId
        IN /\ (/\ last'.counted
               /\ PositionOf(t) > 1
               /\ EarlierNotAllBook(userVotes[u], PositionOf(t)))
              => /\ t \notin DOMAIN userVotes'[u]
                 /\ u \notin DOMAIN votes'[t]
                 /\ t \in SeqRange(last'.invalidatedBadgeIds)
           /\ PositionOf(t) = 1
              => /\ t \notin SeqRange(last'.invalidatedBadgeIds)
                 /\ t \in DOMAIN userVotes'[u] /\ userVotes'[u][t] = "Book"
                 /\ last'.counted
                      => u \in DOMAIN votes'[t] /\ votes'[t][u] = "Book" ]_vars

\* a counted Book vote on the second target replaced the voter's other vote
\* there while the first target carried none: the second target is left
\* without a vote of the voter in both views
C34_Witness ==
  /\ last.op = "vote-badge" /\ last.status = 200 /\ last.counted /\ last.overwrote
  /\ last.badgeId = "b2" /\ last.classification = "Book"
  /\ "b1" \notin DOMAIN userVotes[last.userId]
  /\ last.invalidatedBadgeIds = <<"b2">>
  /\ "b2" \notin DOMAIN userVotes[last.userId]
  /\ last.userId \notin DOMAIN votes["b2"]

-----------------------------------------------------------------------------
(* The creator's user flair and notification, main.tsx 2991-2997, 3067-3156  *)

OwnerSideEffect == userFlair' # userFlair \/ pmSent' # pmSent

\* C37: no step sets the creator's user flair or sends the creator a
\* notification while the voting window of the post is open; a step that
\* does either finds the window closed, runs finalization (it sets the
\* markers) and finds at least
\* MIN_VOTES_TO_SHOW_ELO_IN_POST_FLAIR rating votes.
C37_NoOwnerEffectsWhileOpen ==
  [][ OwnerSideEffect =>
        /\ ~isVoteWindowOpen(postData', now')
        /\ ~isVoteWindowOpen(postData', now)
        /\ last'.ranFinalization /\ eloFinalized' /\ eloNoCountFlairApplied'
        /\ eloVotes' = eloVotes
        /\ Len(EloArr(eloVotes)) >= MIN_VOTES_TO_SHOW_ELO_IN_POST_FLAIR ]_vars

\* the read that finalized a post with enough rating votes set the creator's
\* flair to the consensus and sent the notification
C37_Witness ==
  /\ last.op = "init" /\ last.ranFinalization
  /\ ~isVoteWindowOpen(postData, now)
  /\ userFlair.text = "elo"
  /\ userFlair.elo = MathRound(interquartileMean(EloArr(eloVotes)))
  /\ pmSent = 1

-----------------------------------------------------------------------------
(* What concurrent classification votes of one voter leave of each other,    *)
(* main.tsx 2869-2886, 2912-2953                                             *)

\* the entries of other users are as they were
OthersUntouched(v) ==
  /\ \A u \in Users \ {v} : userVotes'[u] = userVotes[u]
  /\ \A b \in DOMAIN votes :
        \A u \in DOMAIN votes[b] \ {v} :
           u \in DOMAIN votes'[b] /\ votes'[b][u] = votes[b][u]
  /\ \A b \in DOMAIN votes' : DOMAIN votes'[b] \ {v} \subseteq DOMAIN votes[b]

\* every entry of the voter the step removes held Book
RemovesOnlyBook(v) ==
  /\ \A b \in DOMAIN userVotes[v] :
        b \notin DOMAIN userVotes'[v] => userVotes[v][b] = "Book"
  /\ \A b \in DOMAIN votes :
        (v \in DOMAIN votes[b] /\ v \notin DOMAIN votes'[b]) => votes[b][v] = "Book"

\* C33: in every interleaving of the requests of a voter, no step of a vote
\* request changes another voter's entry in the aggregate or personal view
\* of any target, and every entry of the voter that a step removes holds
\* Book at the moment it is removed.
C33_VoteFrame ==
  [][ OthersUntouched(BadgeVoter) /\ RemovesOnlyBook(BadgeVoter) ]_vars

\* C31: whenever no request is in flight, the personal view of a voter who
\* was eligible at every vote and the aggregate view agree: the same targets
\* carry the voter's vote in both, with the same classification.
C31_ViewsAgree ==
  BadgeQuiescent => userVotes[BadgeVoter] = AggregateOf(BadgeVoter)

-----------------------------------------------------------------------------
(* Rating votes in flight while the window closes and a read finalizes the   *)
(* post, main.tsx 2958-3008, 2571, 3067-3104                                 *)

NextEloClose ==
  \/ NextEloRace
  \/ Tick
  \/ OnInit(Creator, "none", "ok")

SpecEloClose == InitEloRace /\ [][NextEloClose]_vars

Finalized == eloFinalized /\ eloNoCountFlairApplied

\* C32: once both finalization markers are set no step of a vote request,
\* one in flight since before the window closed included, changes the
\* rating vote set or the aggregate votes of a target, and the number in the
\* post's flair is round(IQM) of the rating vote set in every later state.
C32_FrozenAfterFinalization ==
  [][ Finalized =>
        /\ eloVoters' = eloVoters /\ eloVotes' = eloVotes /\ votes' = votes
        /\ (postFlair'.visible /\ EloArr(eloVotes') # <<>>)
             => postFlair'.elo = MathRound(interquartileMean(EloArr(eloVotes'))) ]_vars

-----------------------------------------------------------------------------
(* The comment_analysis scheduler job, main.tsx 1005-1062                    *)

\* the data of a job scheduled at dispatch carries no attempt
NoAttempt == 0

\* everything but the jobs of the scheduler
renderFrame == <<now, postData, storeVars, postFlair, userFlair, pmSent, last, lastCounted, lastCountedElo, iqmIn, iqmOut, ballot, modVars, raceVars, mapped, cacheRead, eloCalls, badgeCalls, tally, voters, elo_votes, triggers>>

\* the render is requested and the first job is scheduled, without attempt
DispatchRender(uid) ==
  /\ ~render[uid].dispatched
  /\ render' = [render EXCEPT ![uid].dispatched = TRUE, ![uid].job = "scheduled",
                              ![uid].attempt = NoAttempt]
  /\ UNCHANGED renderFrame

\* Number(attempt ?? 1)
CurAttempt(attempt) == IF attempt = NoAttempt THEN 1 ELSE attempt

MaxPollAttemptsReachedLate(curAttempt) == curAttempt > MAX_RENDER_POLL_ATTEMPTS

\* if (curAttempt >= MAX_RENDER_POLL_ATTEMPTS) return
MaxPollAttemptsReached(curAttempt) == curAttempt >= MAX_RENDER_POLL_ATTEMPTS

\* onRun of a scheduled job: media.upload succeeds or throws, and in the
\* catch block scheduler.runJob succeeds or throws
RunJob(uid, upload, runJob) ==
  /\ render[uid].job = "scheduled"
  /\ render' =
       [render EXCEPT ![uid] =
          IF upload = "ok"
          THEN [@ EXCEPT !.job = "none", !.uploads = @ + 1, !.posted = TRUE]
          ELSE IF MaxPollAttemptsReached(CurAttempt(@.attempt)) \/ runJob = "throws"
          THEN [@ EXCEPT !.job = "none", !.uploads = @ + 1, !.failures = @ + 1]
          ELSE [@ EXCEPT !.job = "scheduled", !.uploads = @ + 1, !.failures = @ + 1,
                         !.attempt = CurAttempt(render[uid].attempt) + 1]]
  /\ UNCHANGED renderFrame

NextRender ==
  \/ \E uid \in Uids : DispatchRender(uid)
  \/ \E uid \in Uids, upload \in {"ok", "throws"}, runJob \in {"ok", "throws"} :
        RunJob(uid, upload, runJob)

\* the scheduler runs every job it holds
SpecRender ==
  Init /\ [][NextRender]_vars
       /\ WF_vars(\E uid \in Uids, upload \in {"ok", "throws"},
                    runJob \in {"ok", "throws"} : RunJob(uid, upload, runJob))

\* what holds of one render at any time
RenderBounded(uid) ==
  LET r == render[uid] IN
  /\ r.uploads <= MAX_RENDER_POLL_ATTEMPTS
  /\ r.uploads = r.failures + (IF r.posted THEN 1 ELSE 0)
  /\ r.job = "scheduled"
       => /\ ~r.posted
          /\ r.failures < MAX_RENDER_POLL_ATTEMPTS
          /\ CurAttempt(r.attempt) = r.failures + 1
  /\ r.posted => r.job = "none"
  /\ r.failures = MAX_RENDER_POLL_ATTEMPTS => r.job = "none"

NoJobScheduled == \A uid \in Uids : render[uid].job = "none"

\* C39: for a dispatched render the job attempts the upload at most
\* MAX_RENDER_POLL_ATTEMPTS times: a job is scheduled only after fewer than
\* MAX_RENDER_POLL_ATTEMPTS failures, carrying the number of the next
\* attempt, never after a successful upload and never after the last failed
\* attempt; and from some point on no job is scheduled.
C39_RenderPollingTerminates ==
  /\ [](\A uid \in Uids : RenderBounded(uid))
  /\ <>[]NoJobScheduled

\* a render whose three uploads all failed, with no job left
C39_Witness ==
  \E uid \in Uids :
     /\ render[uid].uploads = MAX_RENDER_POLL_ATTEMPTS
     /\ render[uid].failures = MAX_RENDER_POLL_ATTEMPTS
     /\ render[uid].job = "none" /\ ~render[uid].posted

-----------------------------------------------------------------------------
(* The CommentCreate trigger on "!elo <n>" comments, step by step: two       *)
(* triggers on one post, one await at a time, in any interleaving,           *)
(* main.tsx 1460-1480, 1570-1605, 1677-1711                                  *)

\* the banned values among those the comments carry
BANNED_VOTE_VALUES == {420, 1234, 1337}

badVoteValue(voteValue) == voteValue \in BANNED_VOTE_VALUES

\* Math.max(MIN_VOTE_VALUE, Math.min(MAX_VOTE_VALUE, vote))
ClampVote(vote) ==
  LET capped == IF MAX_VOTE_VALUE < vote THEN MAX_VOTE_VALUE ELSE vote
  IN IF MIN_VOTE_VALUE > capped THEN MIN_VOTE_VALUE ELSE capped

\* the values of the comments, and the karma and account age of their authors
CommentValues == {50, 1500, 420}
CommentAuthors == {"u1", "u2", Creator}
AuthorStandings == {<<10, 7>>, <<9, 7>>, <<10, 6>>}

TriggerAt(r, pc) == triggers[r].pc = pc

\* everything but the keys and the triggers of the comment path
commentFrame == <<now, postData, storeVars, postFlair, userFlair, pmSent, last, lastCounted, lastCountedElo, iqmIn, iqmOut, ballot, modVars, raceVars, mapped, cacheRead, eloCalls, badgeCalls, tally, render>>

\* onEvent: the comment matches ELO_VOTE_REGEX; a banned value has the
\* comment removed, any other goes to handleUserEloVote, which awaits
\* reddit.getUserById(author.id)
CommentCreate(r, userId, voteValue, standing) ==
  /\ TriggerAt(r, "idle")
  /\ triggers' = [triggers EXCEPT ![r] =
                    [IdleTrigger EXCEPT
                       !.pc = IF badVoteValue(voteValue) THEN "done" ELSE "getUserById",
                       !.userId = userId, !.voteValue = voteValue,
                       !.karma = standing[1], !.ageDays = standing[2]]]
  /\ UNCHANGED <<commentFrame, voters, elo_votes>>

\* redis.hSetNX: the field is set, and 1 returned, only if it is missing
hSetNX(h, field) == field \notin DOMAIN h

\* handleUserEloVote: the checks on the author and hSetNX(votersKey, author.id, "1")
CommentSetVoter(r) ==
  /\ TriggerAt(r, "getUserById")
  /\ IF /\ triggers[r].userId # postData.creatorId
        /\ triggers[r].karma >= MIN_KARMA_TO_VOTE
        /\ triggers[r].ageDays >= MIN_AGE_TO_VOTE_DAYS
        /\ hSetNX(voters, triggers[r].userId)
     THEN /\ voters' = HSet(voters, triggers[r].userId, "1")
          /\ triggers' = [triggers EXCEPT ![r].pc = "hGetAll", ![r].accepted = TRUE]
     ELSE /\ voters' = voters
          /\ triggers' = [triggers EXCEPT ![r].pc = "done"]
  /\ UNCHANGED <<commentFrame, elo_votes>>

\* handleEloVote: postData = await redis.hGetAll(postDataKey); the parsed
\* elo_votes with the clamped vote pushed
CommentGetPostData(r) ==
  /\ TriggerAt(r, "hGetAll")
  /\ triggers' = [triggers EXCEPT
                    ![r].eloVotes = Append(elo_votes, ClampVote(triggers[r].voteValue)),
                    ![r].pc = "hSet"]
  /\ UNCHANGED <<commentFrame, voters, elo_votes>>

\* handleEloVote: await redis.hSet(postDataKey, { elo_votes: JSON.stringify(eloVotes) })
CommentSetEloVotes(r) ==
  /\ TriggerAt(r, "hSet")
  /\ elo_votes' = triggers[r].eloVotes
  /\ triggers' = [triggers EXCEPT ![r].pc = "done"]
  /\ UNCHANGED <<commentFrame, voters>>

NextComments ==
  \/ \E r \in Requests, u \in CommentAuthors, v \in CommentValues,
        st \in AuthorStandings : CommentCreate(r, u, v, st)
  \/ \E r \in Requests : CommentSetVoter(r)
  \/ \E r \in Requests : CommentGetPostData(r)
  \/ \E r \in Requests : CommentSetEloVotes(r)

SpecComments == Init /\ [][NextComments]_vars

TriggersQuiescent == \A r \in Requests : triggers[r].pc \in {"idle", "done"}

\* the clamped value of the comment of a trigger that passed the checks as
\* the first of its author
AcceptedValue(r) ==
  IF triggers[r].accepted THEN <<ClampVote(triggers[r].voteValue)>> ELSE <<>>

\* C38: in every interleaving of the CommentCreate triggers on a post, once
\* all have completed elo_votes holds exactly one value, clamped to
\* [MIN_VOTE_VALUE, MAX_VOTE_VALUE], for each user whose first comment that
\* passed the checks was accepted, and nothing for any other comment.
C38_OneValuePerVoter ==
  TriggersQuiescent =>
    /\ SortAsc(elo_votes) = SortAsc(AcceptedValue("r1") \o AcceptedValue("r2"))
    /\ Len(elo_votes) = Cardinality(DOMAIN voters)

=============================================================================
